---- MODULE Spec2Model ----
(***************************************************************************)
(* Model of the workflow executor (src/workflow/executor.rs), the CLI      *)
(* client's prerequisite helpers (src/workflow/client.rs) and the          *)
(* file-based resource ledger (src/resource/tracker.rs) of raps-demo.      *)
(*                                                                         *)
(* Strings are sequences of one-character strings, so that str::replace,   *)
(* format! and str::contains are computed the way the code computes them.  *)
(***************************************************************************)
EXTENDS Integers, Sequences, FiniteSets, TLC

(***************************************************************************)
(* Bounds of the model.                                                    *)
(***************************************************************************)
\* longest workflow handed to execute_workflow
MaxSteps == 2
\* background tasks of one run: the initial one plus one per resume
MaxTasks == 3
\* calls of cancel_execution
MaxCancels == 2
\* ticks of the wall clock
MaxTime == 2
\* longest string handed to placeholder substitution on its own
MaxLen == 4
\* entries of the ledger's by-workflow index
MaxTracks == 2
\* writes of the snapshot file that fail
MaxWriteFailures == 1
\* calls of cleanup_completed_workflow
MaxCleanups == 1
\* definition files in the workflows directory
MaxFiles == 2
\* longest list of steps of a definition handed to validation
MaxDefinitionSteps == 2

VARIABLES
    active_executions,  \* WorkflowExecutor.active_executions: handle -> ExecutionState
    tasks,              \* the tokio tasks spawned for runs, each with its position
    events,             \* everything sent on progress_sender, in order
    calls,              \* the commands handed to RapsClient::execute_command_async
    now,                \* Utc::now()
    cli_version,        \* what `raps --version` does in this environment
    cli_auth,           \* what `raps auth status` does in this environment
    assets_present,     \* the required asset paths that exist on disk
    api_result,         \* what the last execute_workflow call returned
    cancel_view,        \* history: the run as it was when cancel_execution last
                        \* returned while a subprocess of the run was in flight
    subst_command,      \* a RapsCommand handed to resolve_command_placeholders
    subst_placeholders, \* the placeholder map handed to it
    subst_result,       \* the command it left behind
    resources,          \* FileBasedResourceTracker.resources: id -> TrackedResource
    workflow_resources, \* FileBasedResourceTracker.workflow_resources: workflow -> ids
    cleanup_policies,   \* FileBasedResourceTracker.cleanup_policies: kind -> policy
    cost_data,          \* FileBasedResourceTracker.cost_data: id -> cost
    state_file,         \* the content of the file at FileBasedResourceTracker.state_file
    ledger_result,      \* what the last operation of the ledger returned
    write_failures,     \* how many writes of the snapshot file have failed
    ledger_arg,         \* history: the resource id the last operation was called with
    last_saved,         \* history: the ledger as it was at its last successful save
    reported_error,     \* history: some mutation of the ledger has returned Err
    workflow_strategies,\* CleanupOrchestrator.workflow_strategies: workflow -> strategy
    cleanup_result,     \* what the last cleanup_completed_workflow call returned
    interrupted_workflows, \* CleanupOrchestrator.interrupted_workflows: workflow -> record
    orchestration_result,  \* what the last orchestrate_cleanup call returned
    workflows_dir,      \* the definition files under WorkflowDiscovery.workflows_dir,
                        \* in the order the walk meets them
    workflows,          \* WorkflowDiscovery.workflows: id -> WorkflowDefinition
    dependency_graph,   \* WorkflowDiscovery.dependency_graph: id -> ids
    discovery_result    \* what the last operation of the discovery returned

subst_vars == <<subst_command, subst_placeholders, subst_result>>

ledger_vars == <<resources, workflow_resources, cleanup_policies, cost_data, state_file,
                 ledger_result, write_failures, ledger_arg, last_saved, reported_error>>

orchestrator_vars == <<workflow_strategies, cleanup_result, interrupted_workflows,
                       orchestration_result>>

discovery_vars == <<workflows_dir, workflows, dependency_graph, discovery_result>>

\* what no operation of the executor writes
env_vars == <<cli_version, cli_auth, assets_present, subst_vars, ledger_vars,
              orchestrator_vars, discovery_vars>>

vars == <<active_executions, tasks, events, calls, now, env_vars, api_result,
          cancel_view>>


(***************************************************************************)
(* Strings.                                                                *)
(***************************************************************************)
Digits == <<"1", "2", "3", "4", "5", "6", "7", "8", "9">>

StartsWith(s, p) == Len(p) <= Len(s) /\ SubSeq(s, 1, Len(p)) = p

\* str::contains
RECURSIVE Contains(_, _)
Contains(s, p) ==
    IF Len(s) < Len(p) THEN FALSE
    ELSE StartsWith(s, p) \/ Contains(Tail(s), p)

\* str::replace for a non-empty pattern: non-overlapping matches, left to right
RECURSIVE Replace(_, _, _)
Replace(s, pat, val) ==
    IF s = <<>> THEN <<>>
    ELSE IF StartsWith(s, pat)
         THEN val \o Replace(SubSeq(s, Len(pat) + 1, Len(s)), pat, val)
         ELSE <<Head(s)>> \o Replace(Tail(s), pat, val)

\* format!("{{{}}}", key)
Pattern(key) == <<"{">> \o key \o <<"}">>

\* HashMap::insert
Insert(map, k, v) == [x \in (DOMAIN map) \cup {k} |-> IF x = k THEN v ELSE map[x]]

\* the orders in which a HashMap with these keys may be iterated
Orders(keys) ==
    {o \in [1..Cardinality(keys) -> keys] : \A i, j \in DOMAIN o : i # j => o[i] # o[j]}

(***************************************************************************)
(* Placeholder substitution.                                               *)
(***************************************************************************)
\* the String arm of resolve_json_placeholders: one replace per map entry,
\* in the map's iteration order
RECURSIVE ResolveString(_, _, _)
ResolveString(s, order, placeholders) ==
    IF order = <<>> THEN s
    ELSE ResolveString(Replace(s, Pattern(Head(order)), placeholders[Head(order)]),
                       Tail(order), placeholders)

\* a RapsCommand::Custom { command, args } walked as JSON: the tag and the
\* command are strings, args is an array of strings
ResolveCommand(command, order, placeholders) ==
    [type    |-> ResolveString(command.type, order, placeholders),
     command |-> ResolveString(command.command, order, placeholders),
     args    |-> [i \in DOMAIN command.args |->
                    ResolveString(command.args[i], order, placeholders)]]

\* one entry of the JSON object: strings, and numbers as to_string prints
\* them, are stored under the global key and under step_id.key; booleans,
\* null, arrays and objects are skipped
CaptureEntry(e, step_id, placeholders) ==
    IF e.val.kind \in {"string", "number"}
    THEN Insert(Insert(placeholders, e.key, e.val.s),
                step_id \o <<".">> \o e.key, e.val.s)
    ELSE placeholders

\* capture_json_outputs: the entries of the object in its iteration order
RECURSIVE CaptureJsonOutputs(_, _, _)
CaptureJsonOutputs(json, step_id, placeholders) ==
    IF json = <<>> THEN placeholders
    ELSE CaptureJsonOutputs(Tail(json), step_id,
                            CaptureEntry(Head(json), step_id, placeholders))

\* Utc::now().timestamp().to_string()
TimeString(t) == IF t = 0 THEN <<"0">> ELSE <<Digits[t]>>

(***************************************************************************)
(* The resource ledger (src/resource/tracker.rs, src/resource/types.rs).   *)
(***************************************************************************)
EmptyMap == [x \in {} |-> x]

\* HashMap::remove
Remove(map, k) == [x \in (DOMAIN map) \ {k} |-> map[x]]

DemoDash == <<"d", "e", "m", "o", "-">>
TestDash == <<"t", "e", "s", "t", "-">>
RapsDemoDash == <<"r", "a", "p", "s", "-">> \o DemoDash
RapsDemoSpace == <<"R", "A", "P", "S", " ", "D", "e", "m", "o">>

\* TrackedResource::has_demo_naming (types.rs lines 107-109)
HasDemoNaming(name) ==
    Contains(name, DemoDash) \/ Contains(name, TestDash) \/ Contains(name, RapsDemoDash)

\* ResourceNaming::is_demo_name (types.rs lines 264-266)
IsDemoName(name) ==
    \/ Contains(name, DemoDash)
    \/ Contains(name, TestDash)
    \/ Contains(name, RapsDemoDash)
    \/ Contains(name, RapsDemoSpace)

\* ResourceNaming::demo_bucket_name
DemoBucketName(t) == RapsDemoDash \o <<"b", "u", "c", "k", "e", "t", "-">> \o TimeString(t)

\* ResourceNaming::demo_object_key
DemoObjectKey(original, t) == DemoDash \o TimeString(t) \o <<"-">> \o original

\* ResourceNaming::demo_folder_name
DemoFolderName(base, t) ==
    RapsDemoSpace \o <<" ", "-", " ">> \o base \o <<" ", "-", " ">> \o TimeString(t)

\* ResourceNaming::demo_photoscene_name
DemoPhotosceneName(t) ==
    RapsDemoDash \o <<"p", "h", "o", "t", "o", "s", "c", "e", "n", "e", "-">> \o TimeString(t)

\* apply_demo_naming that rewrites nothing
ApplyNoNaming(kind, base, t) == base

\* FileBasedResourceTracker::apply_demo_naming (lines 148-187)
ApplyDemoNaming(kind, base, t) ==
    IF IsDemoName(base) THEN base
    ELSE CASE kind = "Bucket" -> DemoBucketName(t)
           [] kind = "Object" -> DemoObjectKey(base, t)
           [] kind = "Folder" -> DemoFolderName(base, t)
           [] kind = "Photoscene" -> DemoPhotosceneName(t)
           [] OTHER -> DemoDash \o base

ResourceKinds == {"Bucket", "Object", "Translation", "DesignAutomationWorkItem",
                  "Photoscene", "Webhook", "Folder", "Item"}

\* FileBasedResourceTracker::default_cleanup_policies (lines 113-145); the
\* delay is in hours
DefaultCleanupPolicies ==
    [k \in ResourceKinds |->
        CASE k \in {"Bucket", "Object", "DesignAutomationWorkItem", "Photoscene"} ->
                 [policy |-> "Immediate", duration |-> 0]
          [] k = "Translation" -> [policy |-> "Delayed", duration |-> 1]
          [] OTHER -> [policy |-> "Manual", duration |-> 0]]

\* TrackedResource as TrackedResource::new builds it, with no cleanup
\* commands of its own; estimated_cost is None or Some(cost).  Of the fields
\* of the kind, formats is the number of formats of a translation and size_gib
\* the size of an object
Resource(id, kind, name, workflow_id, created_at) ==
    [id |-> id, resource_type |-> kind, name |-> name, workflow_id |-> workflow_id,
     created_at |-> created_at, estimated_cost |-> [some |-> FALSE, cost |-> 0],
     formats |-> 1, size_gib |-> 1, cleanup_commands |-> <<>>]

\* TrackerState built by save_state (lines 414-420)
TrackerState(res, by_workflow, policies, costs, t) ==
    [resources |-> res, workflow_resources |-> by_workflow, cleanup_policies |-> policies,
     cost_data |-> costs, last_updated |-> t]

\* the file: absent, a snapshot, or any content that does not parse
NoFile == [kind |-> "absent", state |-> TrackerState(EmptyMap, EmptyMap, EmptyMap, EmptyMap, 0)]
CorruptFile == [NoFile EXCEPT !.kind = "corrupt"]
Snapshot(state) == [kind |-> "snapshot", state |-> state]

\* save_state (lines 413-431) on the ledger as the operation leaves it:
\* fs::write replaces the file, or fails and leaves the old file or a
\* truncated one
SaveState(write_ok, res, by_workflow, costs) ==
    IF write_ok
    THEN /\ state_file' = Snapshot(TrackerState(res, by_workflow, cleanup_policies, costs, now))
         /\ last_saved' = TrackerState(res, by_workflow, cleanup_policies, costs, now)
         /\ UNCHANGED write_failures
    ELSE /\ write_failures < MaxWriteFailures
         /\ state_file' \in {state_file, CorruptFile}
         /\ write_failures' = write_failures + 1
         /\ UNCHANGED last_saved

\* entry(workflow_id).or_insert_with(Vec::new).push(id) (lines 286-289)
PushIndex(by_workflow, workflow_id, id) ==
    Insert(by_workflow, workflow_id,
           IF workflow_id \in DOMAIN by_workflow
           THEN Append(by_workflow[workflow_id], id) ELSE <<id>>)

\* retain(|x| x != id) and the removal of an empty entry (lines 303-311)
RetainIndex(by_workflow, workflow_id, id) ==
    IF workflow_id \notin DOMAIN by_workflow THEN by_workflow
    ELSE LET kept == SelectSeq(by_workflow[workflow_id], LAMBDA x : x # id)
         IN  IF kept = <<>> THEN Remove(by_workflow, workflow_id)
             ELSE Insert(by_workflow, workflow_id, kept)

LedgerResult(op, ok, changed) == [op |-> op, ok |-> ok, changed |-> changed]

NumIndexed ==
    LET RECURSIVE Sum(_)
        Sum(ws) == IF ws = {} THEN 0
                   ELSE LET w == CHOOSE w \in ws : TRUE
                        IN  Len(workflow_resources[w]) + Sum(ws \ {w})
    IN  Sum(DOMAIN workflow_resources)

\* track_resource (lines 268-296)
track_resource(resource, write_ok) ==
    LET named == IF HasDemoNaming(resource.name) THEN resource
                 ELSE [resource EXCEPT
                          !.name = ApplyDemoNaming(resource.resource_type, resource.name, now)]
        res == Insert(resources, named.id, named)
        by_workflow == PushIndex(workflow_resources, named.workflow_id, named.id)
    IN  /\ NumIndexed < MaxTracks
        /\ resources' = res
        /\ workflow_resources' = by_workflow
        /\ SaveState(write_ok, res, by_workflow, cost_data)
        /\ ledger_result' = LedgerResult("track", write_ok, TRUE)
        /\ ledger_arg' = named.id
        /\ reported_error' = (reported_error \/ ~write_ok)
        /\ UNCHANGED <<cleanup_policies, cost_data>>

\* untrack_resource (lines 298-322); an id that is not tracked changes nothing
untrack_resource(id, write_ok) ==
    IF id \in DOMAIN resources
    THEN LET res == Remove(resources, id)
             by_workflow == RetainIndex(workflow_resources, resources[id].workflow_id, id)
             costs == Remove(cost_data, id)
         IN  /\ resources' = res
             /\ workflow_resources' = by_workflow
             /\ cost_data' = costs
             /\ SaveState(write_ok, res, by_workflow, costs)
             /\ ledger_result' = LedgerResult("untrack", write_ok, TRUE)
             /\ ledger_arg' = id
             /\ reported_error' = (reported_error \/ ~write_ok)
             /\ UNCHANGED cleanup_policies
    ELSE /\ write_ok
         /\ ledger_result' = LedgerResult("untrack", TRUE, FALSE)
         /\ ledger_arg' = id
         /\ UNCHANGED <<resources, workflow_resources, cleanup_policies, cost_data,
                        state_file, write_failures, last_saved, reported_error>>

\* track_actual_cost (lines 508-519): a failed save is logged, not returned
track_actual_cost(id, actual_cost, write_ok) ==
    LET costs == Insert(cost_data, id, actual_cost)
        res == IF id \in DOMAIN resources
               THEN [resources EXCEPT
                        ![id].estimated_cost = [some |-> TRUE, cost |-> actual_cost]]
               ELSE resources
    IN  /\ cost_data' = costs
        /\ resources' = res
        /\ SaveState(write_ok, res, workflow_resources, costs)
        /\ ledger_result' = LedgerResult("track_actual_cost", TRUE, TRUE)
        /\ ledger_arg' = id
        /\ UNCHANGED <<workflow_resources, cleanup_policies, reported_error>>

\* load_state (lines 433-458) as FileBasedResourceTracker::new calls it on
\* its empty maps (lines 95-107): no file is Ok and loads nothing, a file that
\* does not parse is an Err that new logs, a snapshot replaces the four maps
LoadState(file) ==
    IF file.kind = "snapshot"
    THEN [ok |-> TRUE, state |-> file.state]
    ELSE [ok |-> file.kind = "absent",
          state |-> TrackerState(EmptyMap, EmptyMap, DefaultCleanupPolicies, EmptyMap, 0)]

\* a constructor that removes a file it cannot load
NewTrackerDiscardingFile ==
    LET loaded == LoadState(state_file)
    IN  /\ resources' = loaded.state.resources
        /\ workflow_resources' = loaded.state.workflow_resources
        /\ cleanup_policies' = loaded.state.cleanup_policies
        /\ cost_data' = loaded.state.cost_data
        /\ ledger_result' = LedgerResult("new", TRUE, FALSE)
        /\ ledger_arg' = "none"
        /\ state_file' = IF loaded.ok THEN state_file ELSE NoFile
        /\ UNCHANGED <<write_failures, last_saved, reported_error>>

\* FileBasedResourceTracker::new (lines 86-110) over the path of the old
\* ledger, which is dropped; new returns Ok whatever load_state returns
new_tracker ==
    LET loaded == LoadState(state_file)
    IN  /\ resources' = loaded.state.resources
        /\ workflow_resources' = loaded.state.workflow_resources
        /\ cleanup_policies' = loaded.state.cleanup_policies
        /\ cost_data' = loaded.state.cost_data
        /\ ledger_result' = LedgerResult("new", TRUE, FALSE)
        /\ ledger_arg' = "none"
        /\ UNCHANGED <<state_file, write_failures, last_saved, reported_error>>

\* no ledger is in use
LedgerIdle ==
    /\ resources = EmptyMap
    /\ workflow_resources = EmptyMap
    /\ cleanup_policies = DefaultCleanupPolicies
    /\ cost_data = EmptyMap
    /\ state_file = NoFile
    /\ ledger_result = LedgerResult("none", TRUE, FALSE)
    /\ write_failures = 0
    /\ ledger_arg = "none"
    /\ last_saved = TrackerState(EmptyMap, EmptyMap, DefaultCleanupPolicies, EmptyMap, 0)
    /\ reported_error = FALSE

\* CleanupStrategy; arg is execute_at, max_age or cost_threshold
Strategy(kind, arg) == [kind |-> kind, arg |-> arg]

\* CleanupResult, with the call it answers; seq counts the calls
CleanupResult(seq, workflow_id, mode, strategy, success, cleaned, failed) ==
    [seq |-> seq, workflow_id |-> workflow_id, mode |-> mode, strategy |-> strategy,
     success |-> success, cleaned_resources |-> cleaned, failed_resources |-> failed]

NoCleanupResult ==
    CleanupResult(0, "none", "none", Strategy("Immediate", 0), TRUE, <<>>, <<>>)

\* CleanupOrchestrationResult, with whether a call has returned it
OrchestrationResult(called, success, mode, results, failed_cleanups, cost_savings) ==
    [called |-> called, success |-> success, mode |-> mode,
     workflow_results |-> results, failed_cleanups |-> failed_cleanups,
     cost_savings |-> cost_savings]

NoOrchestrationResult == OrchestrationResult(FALSE, TRUE, "none", EmptyMap, <<>>, 0)

\* CleanupOrchestrator::new: no strategy is set, no cleanup was asked for
OrchestratorIdle ==
    /\ workflow_strategies = EmptyMap
    /\ cleanup_result = NoCleanupResult
    /\ interrupted_workflows = EmptyMap
    /\ orchestration_result = NoOrchestrationResult

(***************************************************************************)
(* Cleanup (src/resource/tracker.rs, src/resource/cleanup.rs).  Time is in *)
(* hours and money in thousandths of a dollar.                             *)
(***************************************************************************)
\* TrackedResource::age
Age(resource) == now - resource.created_at

\* CleanupPolicy::default
DefaultPolicy == [policy |-> "Immediate", duration |-> 0]

\* FileBasedResourceTracker::get_cleanup_policy
GetCleanupPolicy(kind) ==
    IF kind \in DOMAIN cleanup_policies THEN cleanup_policies[kind] ELSE DefaultPolicy

\* the policy switch of should_cleanup_resource and of the dry run
PolicySaysClean(policy, resource) ==
    CASE policy.policy = "Immediate" -> TRUE
      [] policy.policy = "Delayed" -> Age(resource) >= policy.duration
      [] OTHER -> FALSE

\* FileBasedResourceTracker::should_cleanup_resource
ShouldCleanupResource(resource) ==
    PolicySaysClean(GetCleanupPolicy(resource.resource_type), resource)

\* FileBasedResourceTracker::generate_cleanup_commands; the id stands for
\* the aps_id
GenerateCleanupCommands(resource) ==
    IF resource.cleanup_commands # <<>> THEN resource.cleanup_commands
    ELSE CASE resource.resource_type = "Bucket" ->
                  << [type |-> "Bucket", action |-> "Delete", target |-> resource.id] >>
           [] resource.resource_type = "Object" ->
                  << [type |-> "Object", action |-> "Delete", target |-> resource.id] >>
           [] resource.resource_type = "Webhook" ->
                  << [type |-> "Custom", action |-> "webhook delete",
                      target |-> resource.id] >>
           [] OTHER -> <<>>

\* FileBasedResourceTracker::get_resources_for_workflow: the resources of the
\* ids listed for the workflow that are keys of the resource map, in list order
GetResourcesForWorkflow(workflow_id) ==
    IF workflow_id \notin DOMAIN workflow_resources THEN <<>>
    ELSE LET ids == SelectSeq(workflow_resources[workflow_id],
                              LAMBDA id : id \in DOMAIN resources)
         IN  [i \in DOMAIN ids |-> resources[ids[i]]]

\* the ids of a list of resources
Ids(list) == [i \in DOMAIN list |-> list[i].id]

\* TrackedResource::estimated_monthly_cost
EstimatedMonthlyCost(resource) ==
    CASE resource.resource_type = "Bucket" -> 10
      [] resource.resource_type = "Object" -> resource.size_gib * 23
      [] resource.resource_type = "Translation" -> resource.formats * 500
      [] resource.resource_type = "DesignAutomationWorkItem" -> 100
      [] resource.resource_type = "Photoscene" -> 1000
      [] OTHER -> 0

\* the sum CostSummary::add_resource accumulates in total_cost
RECURSIVE TotalCost(_)
TotalCost(list) ==
    IF list = <<>> THEN 0 ELSE EstimatedMonthlyCost(Head(list)) + TotalCost(Tail(list))

\* FileBasedResourceTracker::get_cost_summary, its total_cost
GetCostSummary(workflow_id) == TotalCost(GetResourcesForWorkflow(workflow_id))

\* the result of a cleanup path
Outcome(success, cleaned, failed) ==
    [success |-> success, cleaned_resources |-> cleaned, failed_resources |-> failed]

\* FileBasedResourceTracker::cleanup_workflow_resources: the resources the
\* policy selects are pushed on the cleaned list, with or without cleanup
\* commands; no command is executed and nothing is pushed on the failed list
CleanupWorkflowResources(workflow_id) ==
    Outcome(TRUE,
            Ids(SelectSeq(GetResourcesForWorkflow(workflow_id), ShouldCleanupResource)),
            <<>>)

\* CleanupOrchestrator::generate_manual_cleanup_instructions
GenerateManualCleanupInstructions(workflow_id) ==
    Outcome(TRUE, Ids(GetResourcesForWorkflow(workflow_id)), <<>>)

\* the confirmation execute_interactive_cleanup simulates
UserConfirms(resource) == resource.resource_type \in {"Bucket", "Object", "Photoscene"}

\* the entries of a failed list
Declined(list, reason) == [i \in DOMAIN list |-> [id |-> list[i].id, reason |-> reason]]

\* CleanupOrchestrator::execute_interactive_cleanup
ExecuteInteractiveCleanup(workflow_id) ==
    LET list == GetResourcesForWorkflow(workflow_id)
        failed == Declined(SelectSeq(list, LAMBDA r : ~UserConfirms(r)), "User declined cleanup")
    IN  Outcome(failed = <<>>, Ids(SelectSeq(list, UserConfirms)), failed)

\* CleanupOrchestrator::create_default_policies
CreateDefaultPolicies ==
    [k \in ResourceKinds |->
        CASE k \in {"Bucket", "Object", "Photoscene", "DesignAutomationWorkItem"} ->
                 [policy |-> "Immediate", duration |-> 0]
          [] k = "Translation" -> [policy |-> "Delayed", duration |-> 2]
          [] OTHER -> [policy |-> "Manual", duration |-> 0]]

\* CleanupOrchestrator::get_resource_policy
GetResourcePolicy(kind) ==
    IF kind \in DOMAIN CreateDefaultPolicies THEN CreateDefaultPolicies[kind]
    ELSE DefaultPolicy

\* the reason execute_dry_run_cleanup gives for a resource it would skip
SkipReason(policy) ==
    CASE policy.policy = "Delayed" -> "Resource too young"
      [] policy.policy = "Manual" -> "Manual cleanup policy"
      [] OTHER -> "Never cleanup policy"

\* CleanupOrchestrator::execute_dry_run_cleanup
ExecuteDryRunCleanup(workflow_id) ==
    LET list == GetResourcesForWorkflow(workflow_id)
        WouldClean(r) == PolicySaysClean(GetResourcePolicy(r.resource_type), r)
        skipped == SelectSeq(list, LAMBDA r : ~WouldClean(r))
    IN  Outcome(TRUE, Ids(SelectSeq(list, WouldClean)),
                [i \in DOMAIN skipped |->
                    [id |-> skipped[i].id,
                     reason |-> SkipReason(GetResourcePolicy(skipped[i].resource_type))]])

\* CleanupOrchestrator::execute_immediate_cleanup
ExecuteImmediateCleanup(workflow_id, mode) ==
    CASE mode = "Automatic" -> CleanupWorkflowResources(workflow_id)
      [] mode = "Manual" -> GenerateManualCleanupInstructions(workflow_id)
      [] mode = "Interactive" -> ExecuteInteractiveCleanup(workflow_id)
      [] mode = "DryRun" -> ExecuteDryRunCleanup(workflow_id)

\* CleanupOrchestrator::schedule_cleanup
ScheduleCleanup(workflow_id, execute_at) ==
    Outcome(TRUE, Ids(GetResourcesForWorkflow(workflow_id)), <<>>)

\* CleanupOrchestrator::execute_age_based_cleanup
ExecuteAgeBasedCleanup(workflow_id, max_age) ==
    LET list == GetResourcesForWorkflow(workflow_id)
        failed == Declined(SelectSeq(list, LAMBDA r : Age(r) < max_age), "Resource too young")
    IN  Outcome(failed = <<>>, Ids(SelectSeq(list, LAMBDA r : Age(r) >= max_age)), failed)

\* a resource put behind the resources of a sorted list that cost no less
RECURSIVE InsertByCost(_, _)
InsertByCost(sorted, r) ==
    IF sorted = <<>> THEN <<r>>
    ELSE IF EstimatedMonthlyCost(Head(sorted)) >= EstimatedMonthlyCost(r)
         THEN <<Head(sorted)>> \o InsertByCost(Tail(sorted), r)
         ELSE <<r>> \o sorted

\* a sort that leaves the list as it is
Unsorted(list) == list

\* sort_by on the reversed comparison of the costs: descending and stable
RECURSIVE SortByCostDescending(_)
SortByCostDescending(list) ==
    IF list = <<>> THEN <<>>
    ELSE InsertByCost(SortByCostDescending(SubSeq(list, 1, Len(list) - 1)),
                      list[Len(list)])

\* the loop of execute_cost_based_cleanup over the sorted resources
RECURSIVE CostLoop(_, _, _)
CostLoop(sorted, remaining_cost, cost_threshold) ==
    IF sorted = <<>> \/ remaining_cost <= cost_threshold THEN <<>>
    ELSE <<Head(sorted).id>>
            \o CostLoop(Tail(sorted), remaining_cost - EstimatedMonthlyCost(Head(sorted)),
                        cost_threshold)

\* CleanupOrchestrator::execute_cost_based_cleanup
ExecuteCostBasedCleanup(workflow_id, cost_threshold) ==
    LET total_cost == GetCostSummary(workflow_id)
    IN  IF total_cost <= cost_threshold THEN Outcome(TRUE, <<>>, <<>>)
        ELSE Outcome(TRUE,
                     CostLoop(SortByCostDescending(GetResourcesForWorkflow(workflow_id)),
                              total_cost, cost_threshold),
                     <<>>)

\* CleanupOrchestrator::get_workflow_strategy
GetWorkflowStrategy(workflow_id) ==
    IF workflow_id \in DOMAIN workflow_strategies THEN workflow_strategies[workflow_id]
    ELSE Strategy("Immediate", 0)

\* CleanupOrchestrator::set_workflow_strategy
set_workflow_strategy(workflow_id, strategy) ==
    /\ workflow_strategies' = Insert(workflow_strategies, workflow_id, strategy)
    /\ UNCHANGED <<cleanup_result, interrupted_workflows, orchestration_result,
                   ledger_vars, calls>>

\* CleanupOrchestrator::cleanup_completed_workflow: the strategy picks the
\* path, and only the immediate path looks at the mode.  No path calls the CLI
\* or changes the ledger
CleanupCompletedWorkflow(workflow_id, mode) ==
    LET strategy == GetWorkflowStrategy(workflow_id)
    IN  CASE strategy.kind = "Immediate" -> ExecuteImmediateCleanup(workflow_id, mode)
          [] strategy.kind = "Scheduled" -> ScheduleCleanup(workflow_id, strategy.arg)
          [] strategy.kind = "AgeBasedCleanup" ->
                 ExecuteAgeBasedCleanup(workflow_id, strategy.arg)
          [] strategy.kind = "CostBasedCleanup" ->
                 ExecuteCostBasedCleanup(workflow_id, strategy.arg)

\* CleanupOrchestrator::cleanup_completed_workflow, its result kept
cleanup_completed_workflow(workflow_id, mode) ==
    LET outcome == CleanupCompletedWorkflow(workflow_id, mode)
    IN  /\ cleanup_result.seq < MaxCleanups
        /\ cleanup_result' =
              CleanupResult(cleanup_result.seq + 1, workflow_id, mode,
                            GetWorkflowStrategy(workflow_id),
                            outcome.success, outcome.cleaned_resources,
                            outcome.failed_resources)
        /\ UNCHANGED <<workflow_strategies, interrupted_workflows, orchestration_result,
                       ledger_vars, calls>>

\* the loop of orchestrate_cleanup over the workflow ids (lines 559-581).
\* Every path of cleanup_completed_workflow returns Ok, so each workflow's
\* result is inserted under its id and its cost summary added to the
\* savings; failed_cleanups, which only the Err arm fills, is left as it is
RECURSIVE OrchestrateLoop(_, _, _)
OrchestrateLoop(workflow_ids, mode, acc) ==
    IF workflow_ids = <<>> THEN acc
    ELSE LET workflow_id == Head(workflow_ids)
             result == CleanupCompletedWorkflow(workflow_id, mode)
         IN  OrchestrateLoop(Tail(workflow_ids), mode,
                 [acc EXCEPT
                     !.workflow_results = Insert(@, workflow_id, result),
                     !.cost_savings = @ + GetCostSummary(workflow_id)])

\* CleanupOrchestrator::orchestrate_cleanup: what it returns
OrchestrateCleanup(workflow_ids, mode) ==
    LET done == OrchestrateLoop(workflow_ids, mode,
                                [workflow_results |-> EmptyMap, failed_cleanups |-> <<>>,
                                 cost_savings |-> 0])
    IN  OrchestrationResult(TRUE, done.failed_cleanups = <<>>, mode,
                            done.workflow_results, done.failed_cleanups,
                            done.cost_savings)

\* CleanupOrchestrator::orchestrate_cleanup, its result kept
orchestrate_cleanup(workflow_ids, mode) ==
    /\ orchestration_result' = OrchestrateCleanup(workflow_ids, mode)
    /\ UNCHANGED <<workflow_strategies, cleanup_result, interrupted_workflows,
                   ledger_vars, calls>>

\* InterruptedWorkflowCleanup
InterruptedWorkflowCleanup(workflow_id, interrupted_at, created, instructions, commands) ==
    [workflow_id |-> workflow_id, interrupted_at |-> interrupted_at,
     created_resources |-> created, manual_instructions |-> instructions,
     automated_commands |-> commands]

\* what the instruction handle_interrupted_workflow formats for a resource
\* says: its kind, its name and its id
Instruction(resource) ==
    [kind |-> resource.resource_type, name |-> resource.name, id |-> resource.id]

\* the cleanup commands of the resources of a list, one list after the other
RECURSIVE AutomatedCommands(_)
AutomatedCommands(list) ==
    IF list = <<>> THEN <<>>
    ELSE Head(list).cleanup_commands \o AutomatedCommands(Tail(list))

\* CleanupOrchestrator::handle_interrupted_workflow
handle_interrupted_workflow(workflow_id, interrupted_at) ==
    LET list == GetResourcesForWorkflow(workflow_id)
        cleanup_info ==
            InterruptedWorkflowCleanup(workflow_id, interrupted_at, Ids(list),
                                       [i \in DOMAIN list |-> Instruction(list[i])],
                                       AutomatedCommands(list))
    IN  /\ interrupted_workflows' = Insert(interrupted_workflows, workflow_id, cleanup_info)
        /\ UNCHANGED <<workflow_strategies, cleanup_result, orchestration_result,
                       ledger_vars, calls>>

\* CleanupOrchestrator::get_interrupted_workflows
GetInterruptedWorkflows ==
    {interrupted_workflows[w] : w \in DOMAIN interrupted_workflows}

\* CleanupOrchestrator::clear_interrupted_workflow
clear_interrupted_workflow(workflow_id) ==
    /\ interrupted_workflows' = Remove(interrupted_workflows, workflow_id)
    /\ UNCHANGED <<workflow_strategies, cleanup_result, orchestration_result,
                   ledger_vars, calls>>

(***************************************************************************)
(* Discovery and validation of workflow definitions                        *)
(* (src/workflow/discovery.rs).  Ids and names are strings, "" the empty   *)
(* one.                                                                    *)
(***************************************************************************)
\* Option<Vec<WorkflowId>>
NoDependencies == [some |-> FALSE, ids |-> <<>>]
SomeDependencies(ids) == [some |-> TRUE, ids |-> ids]

\* RapsCommand as validate_command looks at it: its variant, whether a
\* bucket command has a bucket_name, and the bucket_name of an object command
\* or the program of a custom command
Command(type, has_bucket_name, text) ==
    [type |-> type, has_bucket_name |-> has_bucket_name, text |-> text]

\* ExecutionStep
ExecutionStep(id, name, command) == [id |-> id, name |-> name, command |-> command]

\* WorkflowDefinition with the id and name of its metadata, a description
\* that is not empty and no required assets
WorkflowDefinition(id, name, steps, dependencies) ==
    [id |-> id, name |-> name, description |-> "d", required_assets |-> <<>>,
     steps |-> steps, dependencies |-> dependencies]

\* the definition with this description and these required assets in its
\* metadata
WithMetadata(definition, description, required_assets) ==
    [definition EXCEPT !.description = description,
                       !.required_assets = required_assets]

\* a file of the directory: a definition that parses, or anything else
DefinitionFile(definition) == [parses |-> TRUE, definition |-> definition]
UnparsableFile ==
    [parses |-> FALSE, definition |-> WorkflowDefinition("", "", <<>>, NoDependencies)]

\* an entry of ValidationResult.errors: the message and what it names
ValidationError(msg, arg) == [msg |-> msg, arg |-> arg]

\* a validation of commands that lets every command pass
AcceptEveryCommand(command) == [ok |-> TRUE, msg |-> ""]

\* WorkflowDiscovery::validate_command
ValidateCommand(command) ==
    CASE command.type = "bucket" /\ ~command.has_bucket_name ->
             [ok |-> FALSE, msg |-> "Bucket command requires bucket_name"]
      [] command.type = "object" /\ command.text = "" ->
             [ok |-> FALSE, msg |-> "Object command requires bucket_name"]
      [] command.type = "custom" /\ command.text = "" ->
             [ok |-> FALSE, msg |-> "Custom command cannot be empty"]
      [] OTHER -> [ok |-> TRUE, msg |-> ""]

\* the loop of validate_workflow over the steps, step_ids the ids met so far
RECURSIVE StepErrors(_, _)
StepErrors(steps, step_ids) ==
    IF steps = <<>> THEN <<>>
    ELSE LET step == Head(steps)
             id_errors ==
                 IF step.id = "" THEN << ValidationError("Step ID cannot be empty", "") >>
                 ELSE IF step.id \in step_ids
                      THEN << ValidationError("Duplicate step ID: ", step.id) >>
                      ELSE <<>>
             name_errors ==
                 IF step.name = ""
                 THEN << ValidationError("Step name cannot be empty", step.id) >>
                 ELSE <<>>
             command_errors ==
                 IF ValidateCommand(step.command).ok THEN <<>>
                 ELSE << ValidationError("Invalid command in step", step.id) >>
         IN  id_errors \o name_errors \o command_errors
                 \o StepErrors(Tail(steps),
                               IF step.id = "" THEN step_ids ELSE step_ids \cup {step.id})

\* the loop of validate_workflow over the declared dependencies
DependencyErrors(dependencies) ==
    LET missing == SelectSeq(dependencies.ids, LAMBDA dep_id : dep_id \notin DOMAIN workflows)
    IN  [i \in DOMAIN missing |->
            ValidationError("Dependency workflow not found: ", missing[i])]

\* what an operation of the discovery returns: validate fills is_valid and
\* errors, discover and refresh fill metadata, get_workflow_dependencies
\* fills resolved
DiscoveryResult(op, arg, ok, is_valid, errors, metadata, resolved) ==
    [op |-> op, arg |-> arg, ok |-> ok, is_valid |-> is_valid, errors |-> errors,
     warnings |-> <<>>, metadata |-> metadata, resolved |-> resolved]

\* the warnings validate_workflow collects, each a string kept as the
\* sequence of its parts: the empty description first, then every required
\* asset whose path does not exist
ValidationWarnings(workflow) ==
    LET missing == SelectSeq(workflow.required_assets, LAMBDA a : a \notin assets_present)
    IN  (IF workflow.description = ""
         THEN << <<"Workflow description is empty">> >> ELSE <<>>)
        \o [i \in DOMAIN missing |-> <<"Required asset not found: ", missing[i]>>]

\* [String]::join: the strings one after the other with the separator
\* between them, the empty string for no strings
RECURSIVE Join(_, _)
Join(strings, separator) ==
    IF strings = <<>> THEN <<>>
    ELSE IF Len(strings) = 1 THEN Head(strings)
         ELSE Head(strings) \o <<separator>> \o Join(Tail(strings), separator)

\* ValidationResult::with_warning
WithWarning(result, warning) == [result EXCEPT !.warnings = Append(@, warning)]

\* WorkflowDiscovery::validate_workflow
ValidateWorkflow(workflow_id) ==
    IF workflow_id \notin DOMAIN workflows
    THEN DiscoveryResult("validate", workflow_id, FALSE, FALSE, <<>>, <<>>, <<>>)
    ELSE LET workflow == workflows[workflow_id]
             errors ==
                 (IF workflow.id = ""
                  THEN << ValidationError("Workflow ID cannot be empty", "") >> ELSE <<>>)
                 \o (IF workflow.name = ""
                     THEN << ValidationError("Workflow name cannot be empty", "") >>
                     ELSE <<>>)
                 \o (IF workflow.steps = <<>>
                     THEN << ValidationError("Workflow must have at least one step", "") >>
                     ELSE <<>>)
                 \o StepErrors(workflow.steps, {})
                 \o DependencyErrors(workflow.dependencies)
         IN  WithWarning(DiscoveryResult("validate", workflow_id, TRUE, errors = <<>>,
                                         errors, <<>>, <<>>),
                         Join(ValidationWarnings(workflow), "; "))

\* the loop of discover_workflows over the files: a definition that parses
\* is pushed on the metadata list and inserted under its id
RECURSIVE LoadFiles(_, _, _)
LoadFiles(files, loaded, discovered_metadata) ==
    IF files = <<>> THEN [workflows |-> loaded, metadata |-> discovered_metadata]
    ELSE IF Head(files).parses
         THEN LET definition == Head(files).definition
              IN  LoadFiles(Tail(files), Insert(loaded, definition.id, definition),
                            Append(discovered_metadata,
                                   [id |-> definition.id, name |-> definition.name]))
         ELSE LoadFiles(Tail(files), loaded, discovered_metadata)

\* the graph build_dependency_graph fills in
DependencyGraph(loaded) ==
    [w \in DOMAIN loaded |-> loaded[w].dependencies.ids]

\* WorkflowDiscovery::has_circular_dependency over a graph; visited holds the
\* workflows on the path from the root of the search
RECURSIVE HasCircularDependency(_, _, _)
HasCircularDependency(graph, workflow_id, visited) ==
    \/ workflow_id \in visited
    \/ /\ workflow_id \in DOMAIN graph
       /\ \E i \in DOMAIN graph[workflow_id] :
              HasCircularDependency(graph, graph[workflow_id][i], visited \cup {workflow_id})

\* WorkflowDiscovery::build_dependency_graph: the graph, and whether the
\* search for cycles returned Ok
BuildDependencyGraph(loaded) ==
    LET graph == DependencyGraph(loaded)
    IN  [graph |-> graph,
         ok |-> \A w \in DOMAIN loaded : ~HasCircularDependency(graph, w, {})]

\* WorkflowDiscovery::discover_workflows over the files of the directory:
\* the maps it leaves in the instance and what it returns
Discovered(files, op) ==
    LET loaded == LoadFiles(files, EmptyMap, <<>>)
        built == BuildDependencyGraph(loaded.workflows)
    IN  [workflows |-> loaded.workflows,
         dependency_graph |-> built.graph,
         result |-> DiscoveryResult(op, "", built.ok, FALSE, <<>>,
                                    IF built.ok THEN loaded.metadata ELSE <<>>, <<>>)]

\* WorkflowDiscovery::discover_workflows, called as discover or through refresh
discover_workflows(op) ==
    LET discovered == Discovered(workflows_dir, op)
    IN  /\ workflows' = discovered.workflows
        /\ dependency_graph' = discovered.dependency_graph
        /\ discovery_result' = discovered.result
        /\ UNCHANGED workflows_dir

\* WorkflowDiscovery::validate_workflow, its result kept
validate_workflow(workflow_id) ==
    /\ discovery_result' = ValidateWorkflow(workflow_id)
    /\ UNCHANGED <<workflows_dir, workflows, dependency_graph>>

\* a resolution that pushes a workflow before its dependencies
RECURSIVE ResolveDependentFirst(_, _)
ResolveDependentFirst(workflow_id, st) ==
    IF workflow_id \in st.visited THEN st
    ELSE LET RECURSIVE Each(_, _)
             Each(deps, s) ==
                 IF deps = <<>> THEN s
                 ELSE Each(Tail(deps), ResolveDependentFirst(Head(deps), s))
         IN  Each(IF workflow_id \in DOMAIN dependency_graph
                  THEN dependency_graph[workflow_id] ELSE <<>>,
                  [resolved |-> Append(st.resolved, workflow_id),
                   visited |-> st.visited \cup {workflow_id}])

\* WorkflowDiscovery::resolve_dependencies_recursive; st holds resolved and
\* visited
RECURSIVE ResolveDependenciesRecursive(_, _)
ResolveDependenciesRecursive(workflow_id, st) ==
    IF workflow_id \in st.visited THEN st
    ELSE LET RECURSIVE Each(_, _)
             Each(deps, s) ==
                 IF deps = <<>> THEN s
                 ELSE Each(Tail(deps), ResolveDependenciesRecursive(Head(deps), s))
             after == Each(IF workflow_id \in DOMAIN dependency_graph
                           THEN dependency_graph[workflow_id] ELSE <<>>,
                           [st EXCEPT !.visited = st.visited \cup {workflow_id}])
         IN  [after EXCEPT !.resolved = Append(after.resolved, workflow_id)]

\* WorkflowDiscovery::get_workflow_dependencies
GetWorkflowDependencies(workflow_id) ==
    ResolveDependenciesRecursive(workflow_id, [resolved |-> <<>>, visited |-> {}]).resolved

\* WorkflowDiscovery::get_workflow_dependencies, its result kept
get_workflow_dependencies(workflow_id) ==
    /\ discovery_result' = DiscoveryResult("dependencies", workflow_id, TRUE, FALSE, <<>>,
                                           <<>>, GetWorkflowDependencies(workflow_id))
    /\ UNCHANGED <<workflows_dir, workflows, dependency_graph>>

\* WorkflowDiscovery::new over an empty directory
DiscoveryIdle ==
    /\ workflows_dir = <<>>
    /\ workflows = EmptyMap
    /\ dependency_graph = EmptyMap
    /\ discovery_result = Discovered(<<>>, "new").result

(***************************************************************************)
(* Workflow definitions handed to the executor.                            *)
(***************************************************************************)
Str(chars) == [kind |-> "string", s |-> chars]
Bool(chars) == [kind |-> "bool", s |-> chars]

UrnKey == <<"u", "r", "n">>
UuidKey == <<"u", "u", "i", "d">>
TimestampKey == <<"t", "i", "m", "e", "s", "t", "a", "m", "p">>
CustomTag == <<"c", "u", "s", "t", "o", "m">>

StepId(i) == <<"s", Digits[i]>>

\* ExecutionStep: the first step names the bucket after {uuid}, every later
\* step uses the urn of the previous output, by its global name and by the
\* name scoped to step s1
Step(i) ==
    [id      |-> StepId(i),
     command |-> [type    |-> CustomTag,
                  command |-> <<"r", "u", "n">>,
                  args    |-> IF i = 1
                              THEN << Pattern(UuidKey) >>
                              ELSE << Pattern(UrnKey),
                                      Pattern(StepId(1) \o <<".">> \o UrnKey) >>],
     cleanup_commands |-> << [type    |-> CustomTag,
                              command |-> <<"r", "m">>,
                              args    |-> << Pattern(UrnKey) >>] >>]

RequiredAssets == <<"a1", "a2">>

\* WorkflowDefinition with n steps
Workflow(n) ==
    [id              |-> "w",
     steps           |-> [i \in 1..n |-> Step(i)],
     required_assets |-> RequiredAssets]

\* what the CLI may print on success for step i: nothing parseable, a JSON
\* object with a string, one whose key contains a dot, one with a boolean
NoJson == [some |-> FALSE, entries |-> <<>>]
JsonObject(entries) == [some |-> TRUE, entries |-> entries]

StepOutputs(i) ==
    { NoJson,
      JsonObject(<< [key |-> UrnKey, val |-> Str(<<"u", "-", Digits[i]>>)] >>),
      JsonObject(<< [key |-> StepId(1) \o <<".">> \o UrnKey,
                     val |-> Str(<<"x", Digits[i]>>)] >>),
      JsonObject(<< [key |-> <<"o", "k">>, val |-> Bool(<<"t", "r", "u", "e">>)] >>) }

Handles == {"h1"}
CliOutcomes == {"exit0", "nonzero", "spawn_error"}

NoCommand == [type |-> <<>>, command |-> <<>>, args |-> <<>>]
NoStep == [id |-> <<>>]
NoResult == [success |-> FALSE, json_output |-> NoJson]
IdleTask == [pc |-> "idle", handle |-> "none", initial |-> FALSE,
             step |-> NoStep, result |-> NoResult]
DoneTask == [IdleTask EXCEPT !.pc = "done"]

(***************************************************************************)
(* Prerequisite gate.                                                      *)
(***************************************************************************)
\* RapsClient::validate_raps_cli: Err when the binary cannot be spawned or
\* exits non-zero
ValidateRapsCli(version) == version = "exit0"

\* WorkflowExecutor::validate_prerequisites.  The result is Ok(errors), or
\* Err when check_auth_status cannot spawn the binary (the `?` at line 192)
ValidatePrerequisites(version, auth, present, workflow) ==
    LET cli == IF ValidateRapsCli(version) THEN <<>> ELSE << "cli" >>
        assets == SelectSeq(workflow.required_assets, LAMBDA a : a \notin present)
    IN  IF auth = "spawn_error"
        THEN [ok |-> FALSE, errors |-> << "spawn_error" >>]
        ELSE [ok |-> TRUE,
              errors |-> cli \o (IF auth = "exit0" THEN <<>> ELSE << "auth" >>) \o assets]

(***************************************************************************)
(* The executor's operations.                                              *)
(***************************************************************************)
Event(type, handle, step_id) == [type |-> type, handle |-> handle, step |-> step_id]

\* ExecutionUpdate::Completed carries the run's ExecutionResult
CompletedEvent(handle, result) ==
    [type |-> "Completed", handle |-> handle, step |-> <<>>, result |-> result]

Send(e) == events' = Append(events, e)

FreeTask == CHOOSE t \in 1..MaxTasks : tasks[t].pc = "idle" /\ \A u \in 1..(t - 1) : tasks[u].pc # "idle"

CanSpawn == \E t \in 1..MaxTasks : tasks[t].pc = "idle"

Spawn(handle, initial) ==
    tasks' = [tasks EXCEPT ![FreeTask] =
                 [IdleTask EXCEPT !.pc = "loop", !.handle = handle, !.initial = initial]]

\* execute_workflow (lines 211-287)
execute_workflow(n, interactive, timeout, auto_cleanup) ==
    LET workflow == Workflow(n)
        validation == ValidatePrerequisites(cli_version, cli_auth, assets_present, workflow)
    IN  /\ \E h \in Handles : h \notin DOMAIN active_executions
        /\ IF ~validation.ok \/ validation.errors # <<>>
           THEN /\ api_result' = [called |-> TRUE, ok |-> FALSE,
                                  errors |-> validation.errors]
                /\ UNCHANGED <<active_executions, tasks, events>>
           ELSE LET handle == CHOOSE h \in Handles : h \notin DOMAIN active_executions
                    state == [workflow           |-> workflow,
                              options            |-> [interactive  |-> interactive,
                                                      timeout      |-> timeout,
                                                      auto_cleanup |-> auto_cleanup],
                              current_step_index |-> 0,
                              completed_steps    |-> <<>>,
                              created_resources  |-> <<>>,
                              start_time         |-> now,
                              status             |-> "Running",
                              placeholders       |->
                                  Insert(Insert(<<>>, UuidKey, <<"i", "d">>),
                                         TimestampKey, TimeString(now))]
                IN  /\ active_executions' = Insert(active_executions, handle, state)
                    /\ Send(Event("Started", handle, <<>>))
                    /\ CanSpawn
                    /\ Spawn(handle, TRUE)
                    /\ api_result' = [called |-> TRUE, ok |-> TRUE, errors |-> <<>>]
        /\ UNCHANGED <<calls, now, env_vars, cancel_view>>

\* get_execution_progress (lines 289-329); progress_percent is kept as the
\* fraction the division is taken of, 1/1 for a workflow without steps
GetExecutionProgress(state) ==
    [status           |-> state.status,
     completed_steps  |-> Len(state.completed_steps),
     total_steps      |-> Len(state.workflow.steps),
     progress_percent |-> IF state.workflow.steps = <<>>
                          THEN [num |-> 1, den |-> 1]
                          ELSE [num |-> Len(state.completed_steps),
                                den |-> Len(state.workflow.steps)]]

\* the tasks of a run that wait for their subprocess
InFlight(handle) == {t \in 1..MaxTasks : tasks[t].handle = handle /\ tasks[t].pc = "in_flight"}

\* the fields of ExecutionState a step's result is written to
RunView(state) ==
    [completed_steps    |-> state.completed_steps,
     current_step_index |-> state.current_step_index,
     placeholders       |-> state.placeholders,
     status             |-> state.status]

NoView == [set |-> FALSE, handle |-> "none", view |-> <<>>]

NumCancelled == Cardinality({i \in DOMAIN events : events[i].type = "Cancelled"})

\* cancel_execution (lines 332-344); an unknown handle changes nothing
cancel_execution(handle) ==
    /\ handle \in DOMAIN active_executions
    /\ NumCancelled < MaxCancels
    /\ active_executions' = [active_executions EXCEPT ![handle].status = "Cancelled"]
    /\ Send(Event("Cancelled", handle, <<>>))
    /\ cancel_view' = IF InFlight(handle) # {}
                      THEN [set |-> TRUE, handle |-> handle,
                            view |-> RunView(active_executions'[handle])]
                      ELSE cancel_view
    /\ UNCHANGED <<tasks, calls, now, env_vars, api_result>>

\* resume_execution without its check of the status
ResumeGuardAnyStatus(status) == status \in {"Paused", "Running"}

\* the condition under which resume_execution restarts the loop (line 350)
ResumeGuard(status) == status = "Paused"

\* resume_execution (lines 347-367); anything but a paused run changes nothing
resume_execution(handle) ==
    /\ handle \in DOMAIN active_executions
    /\ ResumeGuard(active_executions[handle].status)
    /\ CanSpawn
    /\ active_executions' = [active_executions EXCEPT ![handle].status = "Running"]
    /\ Spawn(handle, FALSE)
    /\ UNCHANGED <<events, calls, now, env_vars, api_result, cancel_view>>

SetTask(t, task) == tasks' = [tasks EXCEPT ![t] = task]

\* run_workflow_execution, the read of the status at the top of the loop
\* (lines 372-403)
LoopTop(t) ==
    LET state == active_executions[tasks[t].handle]
    IN  /\ tasks[t].pc = "loop"
        /\ state.status # "Pending"
        /\ IF state.status # "Running"
           THEN SetTask(t, DoneTask)
           ELSE IF state.current_step_index >= Len(state.workflow.steps)
                THEN SetTask(t, [tasks[t] EXCEPT !.pc = "complete"])
                ELSE SetTask(t, [tasks[t] EXCEPT
                                   !.pc = "check_pause",
                                   !.step = state.workflow.steps[state.current_step_index + 1]])
        /\ UNCHANGED <<active_executions, events, calls, now, env_vars, api_result, cancel_view>>

\* a loop that never pauses
NeverPause(state) == FALSE

\* the pause condition (lines 410-411)
ShouldPause(state) == state.options.interactive /\ state.current_step_index > 0

\* run_workflow_execution, the read of the pause condition (lines 407-412)
CheckPause(t) ==
    /\ tasks[t].pc = "check_pause"
    /\ SetTask(t, [tasks[t] EXCEPT !.pc =
                      IF ShouldPause(active_executions[tasks[t].handle])
                      THEN "write_pause" ELSE "resolve"])
    /\ UNCHANGED <<active_executions, events, calls, now, env_vars, api_result, cancel_view>>

\* run_workflow_execution, the write of the paused status (lines 416-420)
WritePause(t) ==
    /\ tasks[t].pc = "write_pause"
    /\ active_executions' = [active_executions EXCEPT ![tasks[t].handle].status = "Paused"]
    /\ SetTask(t, [tasks[t] EXCEPT !.pc = "send_paused"])
    /\ UNCHANGED <<events, calls, now, env_vars, api_result, cancel_view>>

\* run_workflow_execution, the Paused event and the return (lines 422-428)
SendPaused(t) ==
    /\ tasks[t].pc = "send_paused"
    /\ Send(Event("Paused", tasks[t].handle, tasks[t].step.id))
    /\ SetTask(t, DoneTask)
    /\ UNCHANGED <<active_executions, calls, now, env_vars, api_result, cancel_view>>

\* execute_step, placeholder resolution under the write lock (lines 442-450)
ResolveStep(t) ==
    /\ tasks[t].pc = "resolve"
    /\ \E order \in Orders(DOMAIN active_executions[tasks[t].handle].placeholders) :
         LET placeholders == active_executions[tasks[t].handle].placeholders
             step == tasks[t].step
         IN  SetTask(t, [tasks[t] EXCEPT
                 !.pc = "send_step_started",
                 !.step = [id |-> step.id,
                           command |-> ResolveCommand(step.command, order, placeholders),
                           cleanup_commands |->
                               [i \in DOMAIN step.cleanup_commands |->
                                   ResolveCommand(step.cleanup_commands[i], order,
                                                  placeholders)]]])
    /\ UNCHANGED <<active_executions, events, calls, now, env_vars, api_result, cancel_view>>

\* execute_step, the StepStarted event and the start of the subprocess
\* (lines 455-468)
SendStepStarted(t) ==
    /\ tasks[t].pc = "send_step_started"
    /\ Send(Event("StepStarted", tasks[t].handle, tasks[t].step.id))
    /\ calls' = Append(calls, [handle |-> tasks[t].handle, step |-> tasks[t].step.id,
                              command |-> tasks[t].step.command])
    /\ SetTask(t, [tasks[t] EXCEPT !.pc = "in_flight"])
    /\ UNCHANGED <<active_executions, now, env_vars, api_result, cancel_view>>

\* where run_workflow_execution's Err goes: the task execute_workflow spawned
\* reports it (lines 272-283), the one resume_execution spawned logs it
\* (lines 357-362)
AfterErr(task) ==
    IF task.initial THEN [task EXCEPT !.pc = "send_failed_err"] ELSE DoneTask

StepIndex(step_id) == CHOOSE i \in 1..Len(Digits) : StepId(i) = step_id

\* execute_command_async returns (client.rs lines 199-218): Err on a timeout
\* or a spawn failure, else a CommandResult
InvokeReturn(t) ==
    /\ tasks[t].pc = "in_flight"
    /\ \/ SetTask(t, AfterErr(tasks[t]))
       \/ SetTask(t, [tasks[t] EXCEPT !.pc = "update_failed"])
       \/ \E json \in StepOutputs(StepIndex(tasks[t].step.id)) :
            SetTask(t, [tasks[t] EXCEPT
                           !.pc = "update_success",
                           !.result = [success |-> TRUE, json_output |-> json]])
    /\ UNCHANGED <<active_executions, events, calls, now, env_vars, api_result, cancel_view>>

\* StepResult (lines 474-487); stdout is kept as the JSON it parses to
StepResult(step_id, status, stdout) ==
    [step_id |-> step_id, status |-> status, stdout |-> stdout]

\* a non-zero exit recorded like a success: the status is left alone and the
\* index advances
UpdateFailedAsSuccess(t) ==
    /\ tasks[t].pc = "update_failed"
    /\ active_executions' =
         [active_executions EXCEPT ![tasks[t].handle] =
             [@ EXCEPT !.completed_steps =
                           Append(@, StepResult(tasks[t].step.id, "Failed", NoJson)),
                       !.current_step_index = @ + 1]]
    /\ SetTask(t, [tasks[t] EXCEPT !.pc = "send_failed"])
    /\ UNCHANGED <<events, calls, now, env_vars, api_result, cancel_view>>

\* execute_step, the state update after a non-zero exit (lines 500-506)
UpdateFailed(t) ==
    /\ tasks[t].pc = "update_failed"
    /\ active_executions' =
         [active_executions EXCEPT ![tasks[t].handle] =
             [@ EXCEPT !.status = "Failed",
                       !.completed_steps =
                           Append(@, StepResult(tasks[t].step.id, "Failed", NoJson))]]
    /\ SetTask(t, [tasks[t] EXCEPT !.pc = "send_failed"])
    /\ UNCHANGED <<events, calls, now, env_vars, api_result, cancel_view>>

\* execute_step, the Failed event and the Err return (lines 508-515)
SendFailed(t) ==
    /\ tasks[t].pc = "send_failed"
    /\ Send(Event("Failed", tasks[t].handle, tasks[t].step.id))
    /\ SetTask(t, AfterErr(tasks[t]))
    /\ UNCHANGED <<active_executions, calls, now, env_vars, api_result, cancel_view>>

\* the task execute_workflow spawned reports the Err (lines 276-282)
SendFailedErr(t) ==
    /\ tasks[t].pc = "send_failed_err"
    /\ Send(Event("Failed", tasks[t].handle, <<>>))
    /\ SetTask(t, DoneTask)
    /\ UNCHANGED <<active_executions, calls, now, env_vars, api_result, cancel_view>>

\* the placeholder map after a successful step (lines 523-525)
CapturedPlaceholders(result, step_id, placeholders) ==
    IF result.json_output.some
    THEN CaptureJsonOutputs(result.json_output.entries, step_id, placeholders)
    ELSE placeholders

\* execute_step, the state update after exit code 0 (lines 519-530)
UpdateSuccess(t) ==
    /\ tasks[t].pc = "update_success"
    /\ active_executions' =
         [active_executions EXCEPT ![tasks[t].handle] =
             [@ EXCEPT !.placeholders =
                           CapturedPlaceholders(tasks[t].result, tasks[t].step.id, @),
                       !.completed_steps =
                           Append(@, StepResult(tasks[t].step.id, "Completed",
                                                tasks[t].result.json_output)),
                       !.current_step_index = @ + 1]]
    /\ SetTask(t, [tasks[t] EXCEPT !.pc = "send_step_completed"])
    /\ UNCHANGED <<events, calls, now, env_vars, api_result, cancel_view>>

\* execute_step, the StepCompleted event; the loop goes round (lines 533-540)
SendStepCompleted(t) ==
    /\ tasks[t].pc = "send_step_completed"
    /\ Send(Event("StepCompleted", tasks[t].handle, tasks[t].step.id))
    /\ SetTask(t, [tasks[t] EXCEPT !.pc = "loop", !.step = NoStep, !.result = NoResult])
    /\ UNCHANGED <<active_executions, calls, now, env_vars, api_result, cancel_view>>

\* ExecutionResult as complete_workflow_execution builds it (lines 556-568)
ExecutionResult(state) ==
    [success           |-> \A i \in DOMAIN state.completed_steps :
                               state.completed_steps[i].status = "Completed",
     steps_completed   |-> Len(state.completed_steps),
     total_steps       |-> Len(state.workflow.steps),
     resources_created |-> state.created_resources,
     cleanup_performed |-> FALSE]

\* complete_workflow_execution, the status write and the result built under
\* the same lock (lines 545-570)
CompleteWorkflow(t) ==
    /\ tasks[t].pc = "complete"
    /\ active_executions' = [active_executions EXCEPT ![tasks[t].handle].status = "Completed"]
    /\ SetTask(t, [tasks[t] EXCEPT !.pc = "send_completed",
                                   !.result = ExecutionResult(active_executions'[tasks[t].handle])])
    /\ UNCHANGED <<events, calls, now, env_vars, api_result, cancel_view>>

\* complete_workflow_execution, the Completed event (lines 572-577)
SendCompleted(t) ==
    /\ tasks[t].pc = "send_completed"
    /\ Send(CompletedEvent(tasks[t].handle, tasks[t].result))
    /\ SetTask(t, DoneTask)
    /\ UNCHANGED <<active_executions, calls, now, env_vars, api_result, cancel_view>>

\* the wall clock advances
Tick ==
    /\ now < MaxTime
    /\ now' = now + 1
    /\ UNCHANGED <<active_executions, tasks, events, calls, env_vars, api_result, cancel_view>>

(***************************************************************************)
(* The executor as a state machine.                                        *)
(***************************************************************************)
\* no substitution on its own is under way
SubstIdle ==
    /\ subst_command = NoCommand
    /\ subst_placeholders = <<>>
    /\ subst_result = NoCommand

ExecInit ==
    /\ SubstIdle
    /\ LedgerIdle
    /\ OrchestratorIdle
    /\ DiscoveryIdle
    /\ active_executions = <<>>
    /\ tasks = [t \in 1..MaxTasks |-> IdleTask]
    /\ events = <<>>
    /\ calls = <<>>
    /\ now = 0
    /\ cli_version \in CliOutcomes
    /\ cli_auth \in CliOutcomes
    /\ assets_present \in SUBSET {RequiredAssets[i] : i \in DOMAIN RequiredAssets}
    /\ api_result = [called |-> FALSE, ok |-> TRUE, errors |-> <<>>]
    /\ cancel_view = NoView

\* the values of options.timeout callers pass, in ticks of the clock
Timeouts == {1}

\* the values of options.auto_cleanup callers pass: the default of
\* ExecutionOptions
AutoCleanups == {TRUE}

Execute == \E n \in 0..MaxSteps, interactive \in BOOLEAN, timeout \in Timeouts,
              auto_cleanup \in AutoCleanups :
               execute_workflow(n, interactive, timeout, auto_cleanup)
Cancel == \E h \in Handles : cancel_execution(h)
Resume == \E h \in Handles : resume_execution(h)
TaskLoopTop == \E t \in 1..MaxTasks : LoopTop(t)
TaskCheckPause == \E t \in 1..MaxTasks : CheckPause(t)
TaskWritePause == \E t \in 1..MaxTasks : WritePause(t)
TaskSendPaused == \E t \in 1..MaxTasks : SendPaused(t)
TaskResolveStep == \E t \in 1..MaxTasks : ResolveStep(t)
TaskSendStepStarted == \E t \in 1..MaxTasks : SendStepStarted(t)
TaskInvokeReturn == \E t \in 1..MaxTasks : InvokeReturn(t)
TaskUpdateFailed == \E t \in 1..MaxTasks : UpdateFailed(t)
TaskSendFailed == \E t \in 1..MaxTasks : SendFailed(t)
TaskSendFailedErr == \E t \in 1..MaxTasks : SendFailedErr(t)
TaskUpdateSuccess == \E t \in 1..MaxTasks : UpdateSuccess(t)
TaskSendStepCompleted == \E t \in 1..MaxTasks : SendStepCompleted(t)
TaskCompleteWorkflow == \E t \in 1..MaxTasks : CompleteWorkflow(t)
TaskSendCompleted == \E t \in 1..MaxTasks : SendCompleted(t)

Next ==
    \/ Execute
    \/ Cancel
    \/ Resume
    \/ TaskLoopTop
    \/ TaskCheckPause
    \/ TaskWritePause
    \/ TaskSendPaused
    \/ TaskResolveStep
    \/ TaskSendStepStarted
    \/ TaskInvokeReturn
    \/ TaskUpdateFailed
    \/ TaskSendFailed
    \/ TaskSendFailedErr
    \/ TaskUpdateSuccess
    \/ TaskSendStepCompleted
    \/ TaskCompleteWorkflow
    \/ TaskSendCompleted
    \/ Tick

Spec == ExecInit /\ [][Next]_vars

(***************************************************************************)
(* Properties of the executor.                                             *)
(***************************************************************************)
RunEvents(h) == SelectSeq(events, LAMBDA e : e.handle = h)

TerminalEvents == {"Paused", "Completed", "Failed", "Cancelled"}

\* es continues a word of
\*   Started (StepStarted StepProgress* StepCompleted)* (Paused|Completed|Failed|Cancelled)
\* read so far up to position st, inside step `step`
RECURSIVE RegexPrefix(_, _, _)
RegexPrefix(es, st, step) ==
    IF es = <<>> THEN TRUE
    ELSE LET e == Head(es)
         IN  CASE st = "begin" ->
                    e.type = "Started" /\ RegexPrefix(Tail(es), "between", <<>>)
               [] st = "between" ->
                    \/ e.type = "StepStarted" /\ RegexPrefix(Tail(es), "in_step", e.step)
                    \/ e.type \in TerminalEvents /\ RegexPrefix(Tail(es), "end", <<>>)
               [] st = "in_step" ->
                    \/ e.type = "StepProgress" /\ RegexPrefix(Tail(es), "in_step", step)
                    \/ /\ e.type = "StepCompleted"
                       /\ e.step = step
                       /\ RegexPrefix(Tail(es), "between", <<>>)
               [] OTHER -> FALSE

\* C1: the events of a run, in the order they were sent, always continue a
\* word of Started (StepStarted StepProgress* StepCompleted)* (Paused |
\* Completed | Failed | Cancelled): Started first, each StepStarted followed
\* by its own StepCompleted, one terminal event and nothing after it.
C1_EventsMatchRegex == \A h \in Handles : RegexPrefix(RunEvents(h), "begin", <<>>)

\* C2: at most one subprocess of a run is in flight at any time.
C2_OneStepInFlight == \A h \in Handles : Cardinality(InFlight(h)) <= 1

\* C2, witness: the second step of a run is in flight after a cancel call
\* was made, its first step having returned.
C2_Witness ==
    /\ NumCancelled >= 1
    /\ \E t \in 1..MaxTasks : tasks[t].pc = "in_flight" /\ tasks[t].step.id = StepId(2)

\* C3: no StepStarted event of a run follows a Cancelled event of that run.
C3_NoStepAfterCancel ==
    \A h \in Handles :
        LET es == RunEvents(h)
        IN  \A i, j \in DOMAIN es :
                (i < j /\ es[i].type = "Cancelled") => es[j].type # "StepStarted"

\* C4: once cancel has returned while a subprocess was in flight, the run's
\* completed steps, step index, placeholders and status stay what they were
\* when cancel returned.
C4_CancelDiscardsResult ==
    cancel_view.set => RunView(active_executions[cancel_view.handle]) = cancel_view.view

\* C5: a run does not pause twice without starting a step in between: no two
\* Paused events of a run are sent with no StepStarted event between them.
C5_ResumeRunsNextStep ==
    \A h \in Handles :
        LET es == RunEvents(h)
        IN  \A i, j \in DOMAIN es :
                (i < j /\ es[i].type = "Paused" /\ es[j].type = "Paused")
                    => \E k \in (i + 1)..(j - 1) : es[k].type = "StepStarted"

\* C6: a task that reads the status of a running run at the top of the loop
\* after options.timeout has elapsed marks the run failed.
C6_DeadlineEnforced ==
    [][\A t \in 1..MaxTasks :
          (/\ tasks[t].pc = "loop"
           /\ tasks'[t].pc # "loop"
           /\ active_executions[tasks[t].handle].status = "Running"
           /\ now - active_executions[tasks[t].handle].start_time
                  > active_executions[tasks[t].handle].options.timeout)
          => active_executions'[tasks[t].handle].status = "Failed"]_vars

\* the required assets that are missing
MissingAssets == {RequiredAssets[i] : i \in DOMAIN RequiredAssets} \ assets_present

\* C7: the error execute_workflow returns names every failing prerequisite:
\* the CLI when the version check fails, the authentication when the user is
\* not logged in, every missing asset.
C7_ErrorListsEveryPrerequisite ==
    (api_result.called /\ ~api_result.ok) =>
        LET listed == {api_result.errors[i] : i \in DOMAIN api_result.errors}
        IN  /\ cli_version # "exit0" => "cli" \in listed
            /\ cli_auth = "nonzero" => "auth" \in listed
            /\ MissingAssets \subseteq listed

\* the completed results of a run that printed key k as a string
Producers(state, k) ==
    {i \in DOMAIN state.completed_steps :
        /\ state.completed_steps[i].status = "Completed"
        /\ \E n \in DOMAIN state.completed_steps[i].stdout.entries :
              /\ state.completed_steps[i].stdout.entries[n].key = k
              /\ state.completed_steps[i].stdout.entries[n].val.kind = "string"}

\* the string result i printed for key k
Produced(state, i, k) ==
    LET entries == state.completed_steps[i].stdout.entries
        n == CHOOSE n \in DOMAIN entries : entries[n].key = k
    IN  entries[n].val.s

OutputKeys == {UrnKey, StepId(1) \o <<".">> \o UrnKey, <<"o", "k">>}

\* C8: for every completed step s and key k it printed, s.k maps to the
\* value s printed, and k maps to the value of the latest step that printed k.
C8_ScopedAndGlobalNames ==
    \A h \in DOMAIN active_executions :
        LET state == active_executions[h]
        IN  \A k \in OutputKeys :
                /\ \A i \in Producers(state, k) :
                      LET scoped == state.completed_steps[i].step_id \o <<".">> \o k
                      IN  /\ scoped \in DOMAIN state.placeholders
                          /\ state.placeholders[scoped] = Produced(state, i, k)
                /\ Producers(state, k) # {} =>
                      /\ k \in DOMAIN state.placeholders
                      /\ state.placeholders[k] =
                            Produced(state,
                                     CHOOSE i \in Producers(state, k) :
                                         \A j \in Producers(state, k) : j <= i,
                                     k)

(***************************************************************************)
(* Placeholder substitution on its own: resolve_command_placeholders       *)
(* applied to any short string under any small placeholder map.            *)
(***************************************************************************)
Alphabet == {"{", "}", "a", "b"}

Strings == UNION {[1..n -> Alphabet] : n \in 0..MaxLen}

SubstKeys == {<<"a">>, <<"b">>}

\* values a step may have printed: plain text, nothing, text in braces
SubstValues == {<<"x">>, <<>>, <<"{", "b", "}">>}

SubstMaps == UNION {[keys -> SubstValues] : keys \in SUBSET SubstKeys}

\* the command whose fields are all the string s
CommandOf(s) == [type |-> CustomTag, command |-> s, args |-> <<s, s>>]

SubstInit ==
    /\ subst_command \in {CommandOf(s) : s \in Strings}
    /\ subst_placeholders \in SubstMaps
    /\ subst_result = NoCommand
    /\ LedgerIdle
    /\ OrchestratorIdle
    /\ DiscoveryIdle
    /\ active_executions = <<>>
    /\ tasks = [t \in 1..MaxTasks |-> IdleTask]
    /\ events = <<>>
    /\ calls = <<>>
    /\ now = 0
    /\ cli_version = "exit0"
    /\ cli_auth = "exit0"
    /\ assets_present = {}
    /\ api_result = [called |-> FALSE, ok |-> TRUE, errors |-> <<>>]
    /\ cancel_view = NoView

\* resolve_command_placeholders (lines 583-592), the map iterated in any order
resolve_command_placeholders ==
    /\ subst_result = NoCommand
    /\ \E order \in Orders(DOMAIN subst_placeholders) :
          subst_result' = ResolveCommand(subst_command, order, subst_placeholders)
    /\ UNCHANGED <<subst_command, subst_placeholders, active_executions, tasks, events,
                   calls, now, cli_version, cli_auth, assets_present, api_result,
                   cancel_view, ledger_vars, orchestrator_vars, discovery_vars>>

SubstNext == resolve_command_placeholders

SpecSubst == SubstInit /\ [][SubstNext]_vars

\* the key of the map whose pattern s starts with, if any
MatchingKeys(s, placeholders) ==
    {k \in DOMAIN placeholders : StartsWith(s, Pattern(k))}

\* every occurrence of {name} in s replaced by the map's value for name,
\* everything else left as it is
RECURSIVE Substituted(_, _)
Substituted(s, placeholders) ==
    IF s = <<>> THEN <<>>
    ELSE IF MatchingKeys(s, placeholders) # {}
         THEN LET k == CHOOSE k \in MatchingKeys(s, placeholders) : TRUE
              IN  placeholders[k]
                    \o Substituted(SubSeq(s, Len(Pattern(k)) + 1, Len(s)), placeholders)
         ELSE <<Head(s)>> \o Substituted(Tail(s), placeholders)

\* C9: the resolved command has, in every string field, every {name} of the
\* map replaced by the map's value and everything else unchanged.
C9_SubstitutesEveryName ==
    subst_result # NoCommand =>
        /\ subst_result.type = Substituted(subst_command.type, subst_placeholders)
        /\ subst_result.command = Substituted(subst_command.command, subst_placeholders)
        /\ \A i \in DOMAIN subst_command.args :
              subst_result.args[i] = Substituted(subst_command.args[i], subst_placeholders)

(***************************************************************************)
(* The ledger as a state machine: a fresh ledger over a path with no file, *)
(* then any sequence of its mutations, each with a write that may fail.    *)
(***************************************************************************)
ResourceIds == {"r1", "r2"}
WorkflowIds == {"w1", "w2"}
ActualCosts == {1}

\* the resources callers track: a bucket whose name is not a demo name, for
\* any workflow, and a translation and a folder under the two kinds of demo name
ResourceInputs ==
    {Resource("r1", "Bucket", <<"p", "r", "o", "d">>, w, now) : w \in WorkflowIds}
        \cup {Resource("r2", "Translation", DemoDash \o <<"b">>, "w1", now),
              Resource("r2", "Folder", RapsDemoSpace, "w2", now)}

LedgerInit ==
    /\ LedgerIdle
    /\ OrchestratorIdle
    /\ DiscoveryIdle
    /\ SubstIdle
    /\ active_executions = <<>>
    /\ tasks = [t \in 1..MaxTasks |-> IdleTask]
    /\ events = <<>>
    /\ calls = <<>>
    /\ now = 0
    /\ cli_version = "exit0"
    /\ cli_auth = "exit0"
    /\ assets_present = {}
    /\ api_result = [called |-> FALSE, ok |-> TRUE, errors |-> <<>>]
    /\ cancel_view = NoView

ledger_frame == <<active_executions, tasks, events, calls, now, cli_version, cli_auth,
                  assets_present, api_result, cancel_view, subst_vars, orchestrator_vars,
                  discovery_vars>>

Track == \E r \in ResourceInputs, write_ok \in BOOLEAN :
             track_resource(r, write_ok) /\ UNCHANGED ledger_frame
Untrack == \E id \in ResourceIds, write_ok \in BOOLEAN :
               untrack_resource(id, write_ok) /\ UNCHANGED ledger_frame
RecordActualCost == \E id \in ResourceIds, c \in ActualCosts, write_ok \in BOOLEAN :
                        track_actual_cost(id, c, write_ok) /\ UNCHANGED ledger_frame

Reopen == new_tracker /\ UNCHANGED ledger_frame

LedgerNext ==
    \/ Track
    \/ Untrack
    \/ RecordActualCost
    \/ Reopen

SpecLedger == LedgerInit /\ [][LedgerNext]_vars

\* the snapshot on disk holds what the ledger holds in memory
SnapshotMatchesMemory ==
    /\ state_file.kind = "snapshot"
    /\ state_file.state.resources = resources
    /\ state_file.state.workflow_resources = workflow_resources
    /\ state_file.state.cleanup_policies = cleanup_policies
    /\ state_file.state.cost_data = cost_data

\* C10: when a mutation of the ledger has returned without an error, the
\* snapshot's resources, by-workflow index, policy map and cost data are the
\* ledger's.
C10_SnapshotAgreesAfterMutation ==
    (ledger_result.changed /\ ledger_result.ok) => SnapshotMatchesMemory

\* the ledger's maps are those of the snapshot state s
MemoryIs(s) ==
    /\ resources = s.resources
    /\ workflow_resources = s.workflow_resources
    /\ cleanup_policies = s.cleanup_policies
    /\ cost_data = s.cost_data

\* C11: a track or untrack whose write of the snapshot fails returns an
\* error and leaves the resource map, the by-workflow index and the cost data
\* as they were before the call.
C11_SaveFailureRollsBack ==
    [][(ledger_result'.op \in {"track", "untrack"} /\ write_failures' # write_failures)
          => /\ ~ledger_result'.ok
             /\ UNCHANGED <<resources, workflow_resources, cost_data>>]_vars

\* the ids listed in the by-workflow index
IndexedIds ==
    UNION {{workflow_resources[w][i] : i \in DOMAIN workflow_resources[w]} :
              w \in DOMAIN workflow_resources}

\* C12: once untrack(id) has returned Ok, id is no key of the resource map,
\* is in no workflow's list and has no cost entry.
C12_UntrackRemovesFromAllIndexes ==
    (ledger_result.op = "untrack" /\ ledger_result.ok) =>
        /\ ledger_arg \notin DOMAIN resources
        /\ ledger_arg \notin IndexedIds
        /\ ledger_arg \notin DOMAIN cost_data

\* C13: when no mutation has returned an error, a ledger constructed over
\* the path of the old one holds the resources, by-workflow index, policy map
\* and cost data the old one held at its last successful save.
C13_SnapshotRoundTrip ==
    (ledger_result.op = "new" /\ ~reported_error) => MemoryIs(last_saved)

C15_TrackedNamesAreDemoNames ==
    /\ \A id \in DOMAIN resources : IsDemoName(resources[id].name)
    /\ \A r \in ResourceInputs :
          (/\ r.id \in DOMAIN resources
           /\ resources[r.id].resource_type = r.resource_type
           /\ resources[r.id].workflow_id = r.workflow_id
           /\ IsDemoName(r.name))
          => resources[r.id].name = r.name

\* C15, witness: a bucket tracked under a name that was no demo name, and a
\* folder tracked under the name RAPS Demo, which has_demo_naming rejects.
C15_Witness ==
    /\ "r1" \in DOMAIN resources
    /\ "r2" \in DOMAIN resources
    /\ resources["r1"].name = DemoBucketName(0)
    /\ resources["r2"].name = RapsDemoSpace

(***************************************************************************)
(* Cleanup as a state machine: resources are tracked while the clock       *)
(* advances, strategies are set, and the cleanup of a workflow is asked    *)
(* for in any mode.                                                        *)
(***************************************************************************)
\* the resources a run creates: a photoscene or a translation, and a bucket
\* or a webhook
CleanupInputs ==
    {Resource("r1", kind, DemoDash \o <<"a">>, "w1", now) : kind \in {"Photoscene", "Translation"}}
        \cup {Resource("r2", kind, DemoDash \o <<"b">>, "w1", now) : kind \in {"Bucket", "Webhook"}}

CleanupModes == {"Automatic", "Manual", "Interactive", "DryRun"}

\* the strategies set for a workflow: due now, older than an hour, costing
\* more than half a dollar
StrategyInputs ==
    {Strategy("Immediate", 0), Strategy("Scheduled", 0), Strategy("AgeBasedCleanup", 1),
     Strategy("CostBasedCleanup", 500)}

\* the workflow that is cleaned up
CleanedWorkflows == {"w1"}

\* a workflow tracks its resources while it runs, before it is cleaned up
CleanupTrack ==
    /\ cleanup_result.seq = 0
    /\ \E r \in CleanupInputs : track_resource(r, TRUE) /\ UNCHANGED ledger_frame

cleanup_frame == <<active_executions, tasks, events, now, cli_version, cli_auth,
                   assets_present, api_result, cancel_view, subst_vars, discovery_vars>>

\* the strategy of a workflow is set before the workflow is cleaned up
SetStrategy ==
    /\ cleanup_result.seq = 0
    /\ \E w \in CleanedWorkflows, s \in StrategyInputs :
           set_workflow_strategy(w, s) /\ UNCHANGED cleanup_frame

\* the completed workflow is cleaned up, at any time and in any mode
Cleanup == \E w \in CleanedWorkflows, mode \in CleanupModes :
               cleanup_completed_workflow(w, mode) /\ UNCHANGED cleanup_frame

CleanupNext ==
    \/ CleanupTrack
    \/ Tick
    \/ SetStrategy
    \/ Cleanup

SpecCleanup == LedgerInit /\ [][CleanupNext]_vars

\* what the default policy map of section 4.B says of a resource
PolicyTableSaysClean(resource) ==
    CASE resource.resource_type
             \in {"Bucket", "Object", "Photoscene", "DesignAutomationWorkItem"} -> TRUE
      [] resource.resource_type = "Translation" -> Age(resource) >= 2
      [] OTHER -> FALSE

\* C16: under the default policy map, should_cleanup is true of every
\* bucket, object, photoscene and work item, true of a translation exactly
\* when it is at least 2 hours old, and false of every webhook, folder and item.
C16_ShouldCleanupDefaults ==
    cleanup_policies = DefaultCleanupPolicies =>
        \A kind \in ResourceKinds, created_at \in 0..now :
            LET resource == Resource("r1", kind, DemoDash, "w1", created_at)
            IN  ShouldCleanupResource(resource) = PolicyTableSaysClean(resource)

\* this step is a call of cleanup_completed_workflow
CleanupStep == cleanup_result'.seq # cleanup_result.seq

\* C17: a cleanup in Automatic mode under the immediate strategy reports a
\* resource as cleaned only when every one of its cleanup commands has been
\* handed to the CLI.
C17_CleanedOnlyAfterCommandsRan ==
    [][(/\ CleanupStep
        /\ cleanup_result'.mode = "Automatic"
        /\ cleanup_result'.strategy.kind = "Immediate")
          => \A i \in DOMAIN cleanup_result'.cleaned_resources :
                LET commands ==
                        GenerateCleanupCommands(resources[cleanup_result'.cleaned_resources[i]])
                IN  \A j \in DOMAIN commands :
                        \E k \in DOMAIN calls' : calls'[k].command = commands[j]]_vars

\* C18: a cleanup in DryRun mode calls no CLI command, leaves the ledger and
\* its file as they are, succeeds, and reports as cleaned exactly the
\* workflow's resources the policy table says to clean.
C18_DryRunChangesNothing ==
    [][(CleanupStep /\ cleanup_result'.mode = "DryRun")
          => /\ UNCHANGED <<calls, resources, workflow_resources, cleanup_policies,
                            cost_data, state_file>>
             /\ cleanup_result'.success
             /\ cleanup_result'.cleaned_resources =
                   Ids(SelectSeq(GetResourcesForWorkflow(cleanup_result'.workflow_id),
                                 PolicyTableSaysClean))]_vars

\* what is left of the cost of a list when its first n resources are gone
RemainingCost(list, n) == TotalCost(list) - TotalCost(SubSeq(list, 1, n))

\* the length of the shortest prefix whose removal brings the cost of the
\* list to the threshold or under it, the whole list when there is none
ShortestPrefix(list, cost_threshold) ==
    LET enough == {n \in 0..Len(list) : RemainingCost(list, n) <= cost_threshold}
    IN  IF enough = {} THEN Len(list)
        ELSE CHOOSE n \in enough : \A m \in enough : n <= m

\* C19: a cost-based cleanup reports as cleaned the shortest prefix of the
\* workflow's resources, in descending order of cost, whose removal brings the
\* remaining cost to the threshold or under it: nothing when the cost is
\* within the threshold, everything when no prefix is enough.
C19_CostBasedSelectsByCost ==
    [][(CleanupStep /\ cleanup_result'.strategy.kind = "CostBasedCleanup")
          => LET list == GetResourcesForWorkflow(cleanup_result'.workflow_id)
                 sorted == SortByCostDescending(list)
             IN  /\ Len(sorted) = Len(list)
                 /\ \A i \in 1..(Len(sorted) - 1) :
                       EstimatedMonthlyCost(sorted[i]) >= EstimatedMonthlyCost(sorted[i + 1])
                 /\ cleanup_result'.cleaned_resources =
                       Ids(SubSeq(sorted, 1,
                                  ShortestPrefix(sorted, cleanup_result'.strategy.arg)))]_vars

\* C19, witness: a bucket and then a photoscene were tracked for the
\* workflow, and a cost-based cleanup with threshold 0.50 reported the
\* photoscene alone.
C19_Witness ==
    /\ cleanup_result.seq > 0
    /\ cleanup_result.strategy = Strategy("CostBasedCleanup", 500)
    /\ cleanup_result.cleaned_resources = <<"r1">>
    /\ "w1" \in DOMAIN workflow_resources
    /\ workflow_resources["w1"] = <<"r2", "r1">>
    /\ resources["r1"].resource_type = "Photoscene"
    /\ resources["r2"].resource_type = "Bucket"
    /\ resources["r2"].workflow_id = "w1"

\* C20: when a cost-based cleanup has returned success, the cost summary of
\* the workflow is within the threshold.
C20_RemainingCostWithinThreshold ==
    [][(/\ CleanupStep
        /\ cleanup_result'.strategy.kind = "CostBasedCleanup"
        /\ cleanup_result'.success)
          => \A w \in CleanedWorkflows :
                 cleanup_result'.workflow_id = w
                     => GetCostSummary(w)' <= cleanup_result'.strategy.arg]_vars

\* C21: a cleanup under the Scheduled strategy succeeds without cleaning: it
\* reports no resource as cleaned, calls no CLI command and leaves the ledger
\* and its file as they are.
C21_ScheduledCleansNothing ==
    [][(CleanupStep /\ cleanup_result'.strategy.kind = "Scheduled")
          => /\ cleanup_result'.success
             /\ cleanup_result'.cleaned_resources = <<>>
             /\ UNCHANGED <<calls, resources, workflow_resources, cleanup_policies,
                            cost_data, state_file>>]_vars

(***************************************************************************)
(* Interrupted workflows: resources are tracked and untracked, and the     *)
(* host reports workflows as interrupted and clears them.                  *)
(***************************************************************************)
InterruptedTrack == \E r \in ResourceInputs : track_resource(r, TRUE) /\ UNCHANGED ledger_frame

InterruptedUntrack ==
    \E id \in ResourceIds : untrack_resource(id, TRUE) /\ UNCHANGED ledger_frame

HandleInterrupted == \E w \in WorkflowIds :
                         handle_interrupted_workflow(w, now) /\ UNCHANGED cleanup_frame

ClearInterrupted == \E w \in WorkflowIds :
                        clear_interrupted_workflow(w) /\ UNCHANGED cleanup_frame

InterruptedNext ==
    \/ InterruptedTrack
    \/ InterruptedUntrack
    \/ HandleInterrupted
    \/ ClearInterrupted

SpecInterrupted == LedgerInit /\ [][InterruptedNext]_vars

\* the record of a workflow is the same before and after the step
RecordKept(w) ==
    /\ (w \in DOMAIN interrupted_workflows) = (w \in DOMAIN interrupted_workflows')
    /\ w \in DOMAIN interrupted_workflows => interrupted_workflows'[w] = interrupted_workflows[w]

\* the ids of the resources the ledger holds for a workflow
HeldFor(w) == {id \in DOMAIN resources : resources[id].workflow_id = w}

\* C22: the record handle_interrupted stores for a workflow is the only one
\* of that workflow, lists each id the ledger holds for the workflow once and
\* nothing else, and has one instruction per listed resource; a record stays
\* until clear_interrupted removes it, and neither call touches the record of
\* another workflow.
C22_OneRecordPerInterruptedWorkflow ==
    [][\A w \in WorkflowIds :
          /\ (w \in DOMAIN interrupted_workflows' /\ ~RecordKept(w))
                => LET cleanup_info == interrupted_workflows'[w]
                       created == cleanup_info.created_resources
                   IN  /\ cleanup_info.workflow_id = w
                       /\ {r \in GetInterruptedWorkflows' : r.workflow_id = w} = {cleanup_info}
                       /\ {created[i] : i \in DOMAIN created} = HeldFor(w)
                       /\ Len(created) = Cardinality(HeldFor(w))
                       /\ Len(cleanup_info.manual_instructions) = Len(created)
                       /\ \A i \in DOMAIN created :
                             cleanup_info.manual_instructions[i].id = created[i]
                       /\ \A v \in WorkflowIds \ {w} : RecordKept(v)
          /\ (w \in DOMAIN interrupted_workflows /\ w \notin DOMAIN interrupted_workflows')
                => /\ UNCHANGED ledger_vars
                   /\ \A v \in WorkflowIds \ {w} : RecordKept(v)]_vars

(***************************************************************************)
(* Discovery as a state machine: definition files come and go in the       *)
(* directory, and the host scans it again.                                 *)
(***************************************************************************)
GoodStep == ExecutionStep("s1", "n", Command("bucket", TRUE, "b"))

\* the files written: workflows A and B with or without a dependency on each
\* other, a second definition of A, and a file that does not parse
FileInputs ==
    {DefinitionFile(WorkflowDefinition("A", "n", <<GoodStep>>, deps)) :
        deps \in {NoDependencies, SomeDependencies(<<"B">>)}}
    \cup {DefinitionFile(WorkflowDefinition("B", "n", <<GoodStep>>, deps)) :
            deps \in {NoDependencies, SomeDependencies(<<"A">>)}}
    \cup {DefinitionFile(WorkflowDefinition("A", "m", <<GoodStep>>, NoDependencies)),
          UnparsableFile}

discovery_frame == <<active_executions, tasks, events, calls, now, cli_version, cli_auth,
                     assets_present, api_result, cancel_view, subst_vars, ledger_vars,
                     orchestrator_vars>>

WriteFile ==
    /\ Len(workflows_dir) < MaxFiles
    /\ \E f \in FileInputs : workflows_dir' = Append(workflows_dir, f)
    /\ UNCHANGED <<workflows, dependency_graph, discovery_result, discovery_frame>>

DeleteFile ==
    /\ \E i \in DOMAIN workflows_dir :
           workflows_dir' = SubSeq(workflows_dir, 1, i - 1)
                               \o SubSeq(workflows_dir, i + 1, Len(workflows_dir))
    /\ UNCHANGED <<workflows, dependency_graph, discovery_result, discovery_frame>>

Discover == discover_workflows("discover") /\ UNCHANGED discovery_frame

\* WorkflowDiscovery::refresh
Refresh == discover_workflows("refresh") /\ UNCHANGED discovery_frame

DiscoveryNext ==
    \/ WriteFile
    \/ DeleteFile
    \/ Discover
    \/ Refresh

SpecDiscovery == LedgerInit /\ [][DiscoveryNext]_vars

(***************************************************************************)
(* Queries on a discovery instance: the instance holds what a scan of some *)
(* directory left in it, and the host validates workflows and asks for     *)
(* their dependencies.                                                     *)
(***************************************************************************)
\* the steps of the definitions handed to validation: two sound ones, and
\* one for each way a step can be unsound, a bucket command with a
\* bucket_name that is empty included
StepInputs ==
    {GoodStep,
     ExecutionStep("s2", "n", Command("auth", FALSE, "")),
     ExecutionStep("", "n", Command("bucket", TRUE, "b")),
     ExecutionStep("s1", "", Command("object", FALSE, "b")),
     ExecutionStep("s1", "n", Command("bucket", FALSE, "")),
     ExecutionStep("s2", "n", Command("bucket", TRUE, "")),
     ExecutionStep("s1", "n", Command("object", FALSE, "")),
     ExecutionStep("s2", "n", Command("custom", FALSE, "")),
     ExecutionStep("s2", "n", Command("custom", FALSE, "x"))}

StepLists == UNION {[1..n -> StepInputs] : n \in 0..MaxDefinitionSteps}

\* a definition under validation, alone or beside workflow B
ValidationDirs ==
    {<<DefinitionFile(WorkflowDefinition(id, name, steps, deps))>> \o others :
        id \in {"", "A"}, name \in {"", "n"}, steps \in StepLists,
        deps \in {NoDependencies, SomeDependencies(<<"B">>), SomeDependencies(<<"B", "Z">>)},
        others \in {<<>>,
                    <<DefinitionFile(WorkflowDefinition("B", "n", <<GoodStep>>,
                                                        NoDependencies))>>}}

\* what workflows A, B and C may declare as dependencies; Z is no workflow
DependencyInputs ==
    {NoDependencies, SomeDependencies(<<"A">>), SomeDependencies(<<"B">>),
     SomeDependencies(<<"C">>), SomeDependencies(<<"B", "C">>),
     SomeDependencies(<<"C", "B">>), SomeDependencies(<<"C", "Z">>)}

\* definitions with and without a description, with required assets that
\* exist (a1) or not (a2, a3), with a step or, in error, without one
WarningDirs ==
    {<<DefinitionFile(WithMetadata(WorkflowDefinition("A", "n", steps, NoDependencies),
                                   description, required_assets))>> :
        steps \in {<<>>, <<GoodStep>>}, description \in {"", "d"},
        required_assets \in {<<>>, <<"a1">>, <<"a2">>, <<"a2", "a3">>}}

GraphDirs ==
    {<<DefinitionFile(WorkflowDefinition("A", "n", <<GoodStep>>, a)),
       DefinitionFile(WorkflowDefinition("B", "n", <<GoodStep>>, b)),
       DefinitionFile(WorkflowDefinition("C", "n", <<GoodStep>>, c))>> :
        a \in DependencyInputs, b \in DependencyInputs, c \in DependencyInputs}

QueryInit ==
    /\ \E files \in ValidationDirs \cup WarningDirs \cup GraphDirs :
           LET discovered == Discovered(files, "refresh")
           IN  /\ workflows_dir = files
               /\ workflows = discovered.workflows
               /\ dependency_graph = discovered.dependency_graph
               /\ discovery_result = discovered.result
    /\ LedgerIdle
    /\ OrchestratorIdle
    /\ SubstIdle
    /\ active_executions = <<>>
    /\ tasks = [t \in 1..MaxTasks |-> IdleTask]
    /\ events = <<>>
    /\ calls = <<>>
    /\ now = 0
    /\ cli_version = "exit0"
    /\ cli_auth = "exit0"
    /\ assets_present = {"a1"}
    /\ api_result = [called |-> FALSE, ok |-> TRUE, errors |-> <<>>]
    /\ cancel_view = NoView

Validate == \E w \in DOMAIN workflows : validate_workflow(w) /\ UNCHANGED discovery_frame

ResolveDependencies ==
    \E w \in DOMAIN workflows : get_workflow_dependencies(w) /\ UNCHANGED discovery_frame

QueryNext ==
    \/ Validate
    \/ ResolveDependencies

SpecQueries == QueryInit /\ [][QueryNext]_vars

\* the structural rule on a command
CommandStructurallyValid(command) ==
    /\ command.type = "bucket" => command.has_bucket_name
    /\ command.type = "object" => command.text # ""
    /\ command.type = "custom" => command.text # ""

\* the structural rules on a workflow held by the instance
SatisfiesStructuralRules(workflow) ==
    /\ workflow.id # ""
    /\ workflow.name # ""
    /\ workflow.steps # <<>>
    /\ \A i \in DOMAIN workflow.steps :
          /\ workflow.steps[i].id # ""
          /\ workflow.steps[i].name # ""
          /\ CommandStructurallyValid(workflow.steps[i].command)
          /\ \A j \in DOMAIN workflow.steps :
                workflow.steps[i].id = workflow.steps[j].id => i = j
    /\ \A k \in DOMAIN workflow.dependencies.ids :
          workflow.dependencies.ids[k] \in DOMAIN workflows

RECURSIVE DependencyClosure(_)
DependencyClosure(ws) ==
    LET direct == {d \in UNION {{dependency_graph[w][i] : i \in DOMAIN dependency_graph[w]} :
                                 w \in ws \cap DOMAIN dependency_graph} : TRUE}
    IN  IF direct \subseteq ws THEN ws ELSE DependencyClosure(ws \cup direct)

TransitiveDependencies(w) ==
    IF w \notin DOMAIN dependency_graph THEN {}
    ELSE DependencyClosure({dependency_graph[w][i] : i \in DOMAIN dependency_graph[w]})

\* no workflow of the graph depends on itself, directly or not
Acyclic == \A w \in DOMAIN dependency_graph : w \notin TransitiveDependencies(w)

\* C24: whenever validate finds every workflow the instance holds valid, the
\* dependency relation over them is acyclic.
C24_AllValidImpliesAcyclic ==
    (\A w \in DOMAIN workflows : ValidateWorkflow(w).is_valid) => Acyclic

\* C25: in an acyclic graph the list of dependencies of a workflow holds the
\* workflow and each of its transitive dependencies once and nothing else,
\* every entry after all of its own dependencies, and the workflow last.
C25_DependenciesInExecutionOrder ==
    (discovery_result.op = "dependencies" /\ Acyclic)
        => LET w == discovery_result.arg
               resolved == discovery_result.resolved
           IN  /\ {resolved[i] : i \in DOMAIN resolved} = {w} \cup TransitiveDependencies(w)
               /\ \A i, j \in DOMAIN resolved : resolved[i] = resolved[j] => i = j
               /\ resolved[Len(resolved)] = w
               /\ \A i \in DOMAIN resolved :
                     resolved[i] \in DOMAIN dependency_graph
                         => \A k \in DOMAIN dependency_graph[resolved[i]] :
                               \E j \in 1..(i - 1) :
                                   resolved[j] = dependency_graph[resolved[i]][k]

\* C25, witness: A depends on B, B on nothing, and the dependencies of A
\* are B then A.
C25_Witness ==
    /\ discovery_result.op = "dependencies"
    /\ discovery_result.arg = "A"
    /\ "A" \in DOMAIN dependency_graph /\ dependency_graph["A"] = <<"B">>
    /\ "B" \in DOMAIN dependency_graph /\ dependency_graph["B"] = <<>>
    /\ discovery_result.resolved = <<"B", "A">>

\* C26: the metadata list a scan returns has no two entries with the same
\* workflow id, and exactly one entry for each workflow the instance holds.
C26_WorkflowIdsUnique ==
    (discovery_result.op \in {"new", "discover", "refresh"} /\ discovery_result.ok)
        => LET metadata == discovery_result.metadata
           IN  /\ \A i, j \in DOMAIN metadata : metadata[i].id = metadata[j].id => i = j
               /\ \A w \in DOMAIN workflows :
                     Cardinality({i \in DOMAIN metadata : metadata[i].id = w}) = 1


(***************************************************************************)
(* Properties of completed, paused and failed runs.                        *)
(***************************************************************************)
\* C27: the Completed event of a run that was started with
\* options.auto_cleanup and ran at least one step carries a result that
\* reports cleanup as performed, and the cleanup orchestrator has been asked
\* to clean up by then.
C27_CompletedRunReportsCleanup ==
    \A i \in DOMAIN events :
        (/\ events[i].type = "Completed"
         /\ events[i].result.steps_completed >= 1
         /\ active_executions[events[i].handle].options.auto_cleanup)
            => /\ events[i].result.cleanup_performed
               /\ cleanup_result # NoCleanupResult


\* the tasks of a run that are about to start a step
AboutToStart(h) ==
    {t \in 1..MaxTasks : tasks[t].handle = h /\ tasks[t].pc \in {"resolve", "send_step_started"}}

\* C28: a run pauses exactly between steps in interactive mode.  Every Paused
\* event belongs to an interactive run, never names the first step and names
\* the step after one whose StepCompleted was sent before it; in an
\* interactive run every StepStarted of a step after the first has a Paused
\* event naming that step before it; and while the status is paused no task
\* of the run is about to start a step.
C28_PausesExactlyBetweenSteps ==
    \A h \in DOMAIN active_executions :
        LET es == RunEvents(h)
            state == active_executions[h]
            steps == state.workflow.steps
        IN  /\ \A i \in DOMAIN es :
                   es[i].type = "Paused" =>
                       /\ state.options.interactive
                       /\ es[i].step # steps[1].id
                       /\ \E k \in 1..(Len(steps) - 1), j \in 1..(i - 1) :
                              /\ es[i].step = steps[k + 1].id
                              /\ es[j].type = "StepCompleted"
                              /\ es[j].step = steps[k].id
            /\ state.options.interactive =>
                   \A j \in DOMAIN es :
                       (es[j].type = "StepStarted" /\ es[j].step # steps[1].id) =>
                           \E i \in 1..(j - 1) :
                               es[i].type = "Paused" /\ es[i].step = es[j].step
            /\ state.status = "Paused" => AboutToStart(h) = {}

\* C28, witness: an interactive run of two steps is paused before its second
\* step for the second time, resume having been called after the first.
C28_Witness ==
    \E h \in DOMAIN active_executions :
        /\ active_executions[h].status = "Paused"
        /\ Len(SelectSeq(RunEvents(h),
                         LAMBDA e : e.type = "Paused" /\ e.step = StepId(2))) >= 2


\* the steps of run h whose subprocess exited with a non-zero code, as
\* execute_step recorded them
FailedSteps(h) ==
    LET done == active_executions[h].completed_steps
    IN  {done[i].step_id : i \in {j \in DOMAIN done : done[j].status = "Failed"}}

CancelledRun(h) == \E i \in DOMAIN events :
                       events[i].type = "Cancelled" /\ events[i].handle = h

\* C29: once a step's subprocess has exited with a non-zero code, the run's
\* status is failed unless cancel was called on the run, the current step
\* index still points at the failed step, a Failed event carrying that step's
\* id is in the stream as soon as the task has left execute_step, and no
\* StepStarted event follows that Failed event.
C29_FailedStepStopsRun ==
    \A h \in DOMAIN active_executions :
        LET es == RunEvents(h)
            state == active_executions[h]
        IN  \A s \in FailedSteps(h) :
                /\ ~CancelledRun(h) => state.status = "Failed"
                /\ state.workflow.steps[state.current_step_index + 1].id = s
                /\ \/ \E t \in 1..MaxTasks :
                          /\ tasks[t].handle = h
                          /\ tasks[t].pc = "send_failed"
                          /\ tasks[t].step.id = s
                   \/ \E i \in DOMAIN es :
                          /\ es[i].type = "Failed"
                          /\ es[i].step = s
                          /\ \A j \in DOMAIN es : j > i => es[j].type # "StepStarted"
                /\ AboutToStart(h) = {}
                /\ InFlight(h) = {}

\* C29, witness: the second step of a run that was not cancelled has failed
\* and its Failed event has been sent.
C29_Witness ==
    \E h \in DOMAIN active_executions :
        /\ ~CancelledRun(h)
        /\ FailedSteps(h) = {StepId(2)}
        /\ \E i \in DOMAIN events :
               /\ events[i].type = "Failed"
               /\ events[i].handle = h
               /\ events[i].step = StepId(2)


\* the number of steps of a run that finished with exit code 0
SucceededSteps(state) ==
    Cardinality({i \in DOMAIN state.completed_steps :
                    state.completed_steps[i].status = "Completed"})

\* C30: at every point of a run the progress query reports as completed
\* steps the number of steps that finished with exit code 0, which is the
\* current step index, and as progress_percent that number over total_steps
\* (1 for a workflow without steps); a failed step is not counted.
C30_ProgressCountsSucceededSteps ==
    \A h \in DOMAIN active_executions :
        LET state == active_executions[h]
            progress == GetExecutionProgress(state)
        IN  /\ SucceededSteps(state) = state.current_step_index
            /\ progress.completed_steps = SucceededSteps(state)
            /\ progress.progress_percent =
                   IF progress.total_steps = 0
                   THEN [num |-> 1, den |-> 1]
                   ELSE [num |-> SucceededSteps(state), den |-> progress.total_steps]


(***************************************************************************)
(* Properties of output capture, terminal statuses and terminal events.    *)
(***************************************************************************)
ScalarKinds == {"string", "number", "bool"}

\* C31: after a step succeeded with a JSON object on stdout, every top-level
\* field of the object whose value is a string, a number or a boolean is a
\* key of the run's placeholder map, both as key and as step_id.key.
C31_ScalarFieldsCaptured ==
    \A h \in DOMAIN active_executions :
        LET state == active_executions[h]
            done == state.completed_steps
        IN  \A i \in DOMAIN done :
                (done[i].status = "Completed" /\ done[i].stdout.some) =>
                    \A k \in DOMAIN done[i].stdout.entries :
                        LET e == done[i].stdout.entries[k]
                        IN  e.val.kind \in ScalarKinds =>
                                /\ e.key \in DOMAIN state.placeholders
                                /\ (done[i].step_id \o <<".">> \o e.key)
                                       \in DOMAIN state.placeholders


\* C32: completed and failed are absorbing: no step of the executor changes
\* the status of a run whose status is completed or failed.
C32_TerminalStatusAbsorbing ==
    [][\A h \in DOMAIN active_executions :
          active_executions[h].status \in {"Completed", "Failed"} =>
              active_executions'[h].status = active_executions[h].status]_vars


\* the background tasks of a run that have not returned
LiveTasks(h) == {t \in 1..MaxTasks : tasks[t].handle = h}

\* C33: when no background task of a run is left the run's status is not
\* running, and a run for which a Failed event was sent and on which cancel
\* was never called has the status failed.
C33_StoppedRunIsNotRunning ==
    \A h \in DOMAIN active_executions :
        /\ LiveTasks(h) = {} => active_executions[h].status # "Running"
        /\ (/\ \E i \in DOMAIN events :
                  events[i].type = "Failed" /\ events[i].handle = h
            /\ ~CancelledRun(h))
               => active_executions[h].status = "Failed"


FinalEvents == {"Completed", "Failed", "Cancelled"}

\* C34: at most one of the events Completed, Failed and Cancelled is sent
\* for a run.
C34_OneTerminalEvent ==
    \A h \in Handles :
        Len(SelectSeq(RunEvents(h), LAMBDA e : e.type \in FinalEvents)) <= 1


\* C35: a cancelled run stays out of paused and running: no step of the
\* executor takes the status of a run from cancelled to paused or running.
C35_CancelledNeverPausedOrRunning ==
    [][\A h \in DOMAIN active_executions :
          active_executions[h].status = "Cancelled" =>
              active_executions'[h].status \notin {"Paused", "Running"}]_vars


(***************************************************************************)
(* Properties of the ledger's indexes.                                     *)
(***************************************************************************)
\* how many times id is listed under workflow w
TimesListed(w, id) ==
    IF w \in DOMAIN workflow_resources
    THEN Cardinality({i \in DOMAIN workflow_resources[w] : workflow_resources[w][i] = id})
    ELSE 0

\* C36: the by-workflow index agrees with the resource map: every id listed
\* under workflow w is a tracked resource of workflow w, every tracked
\* resource is listed under its own workflow exactly once, and no workflow
\* has an empty list.
C36_WorkflowIndexConsistent ==
    /\ \A w \in DOMAIN workflow_resources :
          /\ workflow_resources[w] # <<>>
          /\ \A i \in DOMAIN workflow_resources[w] :
                LET id == workflow_resources[w][i]
                IN  id \in DOMAIN resources /\ resources[id].workflow_id = w
    /\ \A id \in DOMAIN resources : TimesListed(resources[id].workflow_id, id) = 1


\* C37: every resource id that has an entry in the cost data is a tracked
\* resource.
C37_CostDataOnlyForTracked == DOMAIN cost_data \subseteq DOMAIN resources


(***************************************************************************)
(* Determinism of placeholder substitution.                                *)
(***************************************************************************)
\* C38: the resolved command is the same whatever the order in which the
\* placeholder map is visited, and is the command with every {name} replaced
\* once, a substituted value not being expanded again.
C38_SubstitutionOrderIndependent ==
    subst_result # NoCommand =>
        /\ \A order \in Orders(DOMAIN subst_placeholders) :
              subst_result = ResolveCommand(subst_command, order, subst_placeholders)
        /\ subst_result.command = Substituted(subst_command.command, subst_placeholders)


(***************************************************************************)
(* The warnings of a validation.                                           *)
(***************************************************************************)
\* how many warning conditions hold for a workflow: an empty description,
\* and each required asset whose path does not exist
WarningConditions(workflow) ==
    (IF workflow.description = "" THEN 1 ELSE 0)
        + Cardinality({i \in DOMAIN workflow.required_assets :
                          workflow.required_assets[i] \notin assets_present})

\* C39: the warnings of a validation have one entry for each warning
\* condition that holds, and none when no condition holds, whether or not
\* the workflow has errors.
C39_OneWarningPerCondition ==
    (discovery_result.op = "validate" /\ discovery_result.ok) =>
        Len(discovery_result.warnings) =
            WarningConditions(workflows[discovery_result.arg])


(***************************************************************************)
(* Orchestration as a state machine: workflows track their resources and   *)
(* have their strategies set, time passes, and the host has several        *)
(* workflows cleaned up in one call.                                       *)
(***************************************************************************)
\* the resources of two workflows: a photoscene or a translation of w1, a
\* bucket or a webhook of w2
OrchestrationInputs ==
    {Resource("r1", kind, DemoDash \o <<"a">>, "w1", now) : kind \in {"Photoscene", "Translation"}}
        \cup {Resource("r2", kind, DemoDash \o <<"b">>, "w2", now) : kind \in {"Bucket", "Webhook"}}

\* the lists of workflows handed to orchestrate_cleanup
WorkflowIdLists == {<<>>, <<"w1">>, <<"w1", "w2">>, <<"w2", "w1">>}

\* the workflows track their resources and have their strategies set before
\* the orchestration
OrchestrationTrack ==
    /\ ~orchestration_result.called
    /\ \E r \in OrchestrationInputs : track_resource(r, TRUE) /\ UNCHANGED ledger_frame

OrchestrationSetStrategy ==
    /\ ~orchestration_result.called
    /\ \E w \in WorkflowIds, s \in StrategyInputs :
           set_workflow_strategy(w, s) /\ UNCHANGED cleanup_frame

\* the host orchestrates once, at any time and in any mode
Orchestrate ==
    /\ ~orchestration_result.called
    /\ \E workflow_ids \in WorkflowIdLists, mode \in CleanupModes :
           orchestrate_cleanup(workflow_ids, mode) /\ UNCHANGED cleanup_frame

OrchestrationNext ==
    \/ OrchestrationTrack
    \/ Tick
    \/ OrchestrationSetStrategy
    \/ Orchestrate

SpecOrchestration == LedgerInit /\ [][OrchestrationNext]_vars

\* C40: an orchestration that reports success collected only per-workflow
\* results that report success, and every resource a per-workflow result
\* lists as failed is listed in the orchestration's failed_cleanups.
C40_OrchestrationReportsFailures ==
    orchestration_result.called =>
        \A w \in DOMAIN orchestration_result.workflow_results :
            LET result == orchestration_result.workflow_results[w]
            IN  /\ orchestration_result.success => result.success
                /\ \A i \in DOMAIN result.failed_resources :
                      \E j \in DOMAIN orchestration_result.failed_cleanups :
                          orchestration_result.failed_cleanups[j].id
                              = result.failed_resources[i].id

=============================================================================
